---------------------------- MODULE Spec2Model ----------------------------
(***************************************************************************)
(* A model of the PDF renaming agent (src/src/tools.py, src/src/agent.py,  *)
(* src/src/main.py, src/src/settings.py).                                  *)
(*                                                                         *)
(* Strings are sequences of Unicode code points, so that str.upper(),      *)
(* str.replace(), str.find(), startswith(), the regular expressions and    *)
(* sorted() are computed as Python computes them.  The texts of the model  *)
(* range over ASCII, the Russian Cyrillic letters, the numero sign and the *)
(* Arabic-Indic digits.                                                    *)
(* Confidences and scores are integers, in hundredths (0.98 is 98): every  *)
(* sum the scorer can form is the float nearest to its hundredth.          *)
(***************************************************************************)
EXTENDS Integers, Sequences, FiniteSets, TLC

VARIABLES
    dir,        \* the folder: file name -> the file (its identity) at that name
    files,      \* file -> what reading it yields (fixed by Init)
    cfg,        \* the run: dry_run, ocr_enabled, llm (a model is there), unicode_stdout
    pc,         \* the position of the program
    pdf_paths,  \* process_folder_simple: the sorted paths it enumerated
    idx,        \* process_folder_simple: the loop index (1-based)
    loc,        \* process_folder_simple: the locals of the current iteration
    cnt,        \* process_folder_simple: processed, renamed, skipped, errors
    log,        \* the records appended to the CSV log
    calls,      \* history: the safe_rename calls made, with their results
    dir0,       \* history: the folder when the run started
    inp,        \* the arguments of the pure function under check
    out,        \* its result
    LOG_FILE_PATH   \* tools._LOG_FILE_PATH: None, or the path of the log

vars ==
    <<dir, files, cfg, pc, pdf_paths, idx, loc, cnt, log, calls, dir0, inp, out,
      LOG_FILE_PATH>>

----------------------------------------------------------------------------
(* Bounds of the model.                                                    *)

\* the number of tool calls of one behaviour of SpecRename that rename or log
MaxCalls == 2

\* the number of documents of the folder process_folder_simple is run on
MaxDocs == 2

\* the length of the candidate lists _calculate_confidence is given
MaxCands == 2

----------------------------------------------------------------------------
(* Strings.                                                                *)

\* str.startswith(prefix)
StartsWith(s, prefix) ==
    /\ Len(prefix) <= Len(s)
    /\ SubSeq(s, 1, Len(prefix)) = prefix

\* str(n) of a natural number: its decimal digits
RECURSIVE Str(_)
Str(n) == IF n < 10 THEN <<48 + n>> ELSE Str(n \div 10) \o <<48 + (n % 10)>>

\* ".pdf"
PDF_EXT == <<46, 112, 100, 102>>

\* "ERROR"
ERROR_PREFIX == <<69, 82, 82, 79, 82>>

\* "ERROR: "
NOTE_ERROR == <<69, 82, 82, 79, 82, 58, 32>>

\* "ERROR: файл не найден: "
NOTE_NOT_FOUND_FILE ==
    <<69, 82, 82, 79, 82, 58, 32, 1092, 1072, 1081, 1083, 32, 1085, 1077, 32,
      1085, 1072, 1081, 1076, 1077, 1085, 58, 32>>

\* "коллизия имени, добавлен суффикс _"
NOTE_COLLISION ==
    <<1082, 1086, 1083, 1083, 1080, 1079, 1080, 1103, 32, 1080, 1084, 1077,
      1085, 1080, 44, 32, 1076, 1086, 1073, 1072, 1074, 1083, 1077, 1085, 32,
      1089, 1091, 1092, 1092, 1080, 1082, 1089, 32, 95>>

\* "переименовано успешно"
NOTE_RENAMED ==
    <<1087, 1077, 1088, 1077, 1080, 1084, 1077, 1085, 1086, 1074, 1072, 1085,
      1086, 32, 1091, 1089, 1087, 1077, 1096, 1085, 1086>>

\* "DRY RUN: "
NOTE_DRY_RUN == <<68, 82, 89, 32, 82, 85, 78, 58, 32>>

\* the w hexadecimal digits of n, in lower case
RECURSIVE Hex(_, _)
Hex(n, w) ==
    IF w = 0 THEN <<>>
    ELSE Hex(n \div 16, w - 1) \o <<IF n % 16 < 10 THEN 48 + (n % 16) ELSE 87 + (n % 16)>>

\* repr(s) of a str.  The quote is a double quote when the str holds a single
\* quote and no double quote, else a single quote; the backslash and the quote
\* are escaped, as are "\t", "\n", "\r", and the other control characters and
\* the characters U+007F..U+00A0 ("\xNN"); any other character of the model is
\* written as it is
Repr(s) ==
    LET q == IF (\E i \in 1..Len(s) : s[i] = 39) /\ ~(\E i \in 1..Len(s) : s[i] = 34)
             THEN 34 ELSE 39
        Esc(c) ==
            IF c = 92 \/ c = q THEN <<92, c>>
            ELSE IF c = 9 THEN <<92, 116>>
            ELSE IF c = 10 THEN <<92, 110>>
            ELSE IF c = 13 THEN <<92, 114>>
            ELSE IF c < 32 \/ c \in 127..160 THEN <<92, 120>> \o Hex(c, 2)
            ELSE <<c>>
        RECURSIVE Body(_)
        Body(t) == IF t = <<>> THEN <<>> ELSE Esc(Head(t)) \o Body(Tail(t))
    IN  <<q>> \o Body(s) \o <<q>>

\* str(e) of the OSError a failing rename raises, its two file names in it:
\* "[Errno 13] Permission denied: 'path' -> 'new_path'"
OS_ERROR_MSG(path, new_path) ==
    <<91, 69, 114, 114, 110, 111, 32, 49, 51, 93, 32, 80, 101, 114, 109, 105,
      115, 115, 105, 111, 110, 32, 100, 101, 110, 105, 101, 100, 58, 32>>
    \o Repr(path) \o <<32, 45, 62, 32>> \o Repr(new_path)

\* str.upper() and str.lower() of one character
UpperChar(c) ==
    IF c \in 97..122 \/ c \in 1072..1103 THEN c - 32
    ELSE IF c = 1105 THEN 1025 ELSE c

LowerChar(c) ==
    IF c \in 65..90 \/ c \in 1040..1071 THEN c + 32
    ELSE IF c = 1025 THEN 1105 ELSE c

upper(s) == [i \in 1..Len(s) |-> UpperChar(s[i])]
lower(s) == [i \in 1..Len(s) |-> LowerChar(s[i])]

\* the character classes of the regular expressions: \s, [A-Z], [A-Z] under
\* re.IGNORECASE, \d, \w.  The patterns are str patterns compiled without
\* re.ASCII: \d is any Unicode decimal digit, here the ASCII digits and the
\* Arabic-Indic digits U+0660..U+0669
IsSpace(c) == c \in {9, 10, 11, 12, 13, 28, 29, 30, 31, 32, 133, 160}
IsUpperAZ(c) == c \in 65..90
IsLetterAZ(c) == c \in 65..90 \/ c \in 97..122
IsDigit(c) == c \in 48..57 \/ c \in 1632..1641
IsWord(c) ==
    \/ IsLetterAZ(c) \/ IsDigit(c) \/ c = 95
    \/ c \in 1040..1103 \/ c = 1025 \/ c = 1105

\* str.replace(ch, "") for a single character ch
Remove(s, ch) == SelectSeq(s, LAMBDA c : c # ch)

\* raw.replace(" ", "").replace("-", "").replace("_", "").upper()
StripUpper(raw) == upper(Remove(Remove(Remove(raw, 32), 45), 95))

\* sub occurs in s at the 0-based position i
OccursAt(s, sub, i) ==
    /\ i >= 0
    /\ i + Len(sub) <= Len(s)
    /\ SubSeq(s, i + 1, i + Len(sub)) = sub

\* str.find(sub): the 0-based position of the first occurrence, or -1
Find(s, sub) ==
    LET hits == {i \in 0..Len(s) : OccursAt(s, sub, i)}
    IN  IF hits = {} THEN -1 ELSE CHOOSE i \in hits : \A j \in hits : i <= j

\* sub in s
Contains(s, sub) == Find(s, sub) # -1

\* str.strip(): the string without its leading and trailing white space
Strip(s) ==
    LET keep == {i \in 1..Len(s) : ~IsSpace(s[i])}
    IN  IF keep = {} THEN <<>>
        ELSE SubSeq(s, CHOOSE i \in keep : \A j \in keep : i <= j,
                       CHOOSE i \in keep : \A j \in keep : i >= j)

\* the value of an expression, computed once and then named: The({F(x) : x \in {e}})
\* is F(e), e having been evaluated a single time
The(S) == CHOOSE x \in S : TRUE

\* abs()
Abs(n) == IF n < 0 THEN -n ELSE n

\* min()
Min(a, b) == IF a < b THEN a ELSE b

\* a plausible bug: the duplicates are kept
Dedupe_none(xs) == xs

\* list(dict.fromkeys(xs)): the list without the later duplicates
RECURSIVE Dedupe(_)
Dedupe(xs) ==
    IF xs = <<>> THEN <<>>
    ELSE The({ IF \E i \in 1..Len(front) : front[i] = xs[Len(xs)] THEN front
               ELSE Append(front, xs[Len(xs)]) :
               front \in {Dedupe(SubSeq(xs, 1, Len(xs) - 1))} })

----------------------------------------------------------------------------
(* settings.py                                                             *)

\* VALIDATION_PATTERN.match(s): ^[A-Z]{4}\d{7}$, where $ also matches before a
\* newline that ends the string
VALIDATION_PATTERN(s) ==
    /\ Len(s) >= 11
    /\ \A i \in 1..4 : IsUpperAZ(s[i])
    /\ \A i \in 5..11 : IsDigit(s[i])
    /\ \/ Len(s) = 11
       \/ Len(s) = 12 /\ s[12] = 10

\* CONTAINER_KEYWORDS: "контейнер", "container", "наименование груза", "груз",
\* "cargo", "код", "номер", "no", "№", "number", "наименование"
CONTAINER_KEYWORDS ==
    << <<1082, 1086, 1085, 1090, 1077, 1081, 1085, 1077, 1088>>,
       <<99, 111, 110, 116, 97, 105, 110, 101, 114>>,
       <<1085, 1072, 1080, 1084, 1077, 1085, 1086, 1074, 1072, 1085, 1080, 1077,
         32, 1075, 1088, 1091, 1079, 1072>>,
       <<1075, 1088, 1091, 1079>>,
       <<99, 97, 114, 103, 111>>,
       <<1082, 1086, 1076>>,
       <<1085, 1086, 1084, 1077, 1088>>,
       <<110, 111>>,
       <<8470>>,
       <<110, 117, 109, 98, 101, 114>>,
       <<1085, 1072, 1080, 1084, 1077, 1085, 1086, 1074, 1072, 1085, 1080, 1077>> >>

\* KNOWN_CONTAINER_PREFIXES: TEMU MSCU TKRU TGHU FCIU HLBU CMAU NYKU GESU TCLU WHLU
\* PONU COSU HDMU KKFU GLDU TCNU SNBU BMOU DFSU SUDU APZU EISU CAXU MEDU OOCU TRLU
\* INKU MSKU CRXU MRKU CXDU
KNOWN_CONTAINER_PREFIXES ==
    { <<84, 69, 77, 85>>, <<77, 83, 67, 85>>, <<84, 75, 82, 85>>, <<84, 71, 72, 85>>,
      <<70, 67, 73, 85>>, <<72, 76, 66, 85>>, <<67, 77, 65, 85>>, <<78, 89, 75, 85>>,
      <<71, 69, 83, 85>>, <<84, 67, 76, 85>>, <<87, 72, 76, 85>>, <<80, 79, 78, 85>>,
      <<67, 79, 83, 85>>, <<72, 68, 77, 85>>, <<75, 75, 70, 85>>, <<71, 76, 68, 85>>,
      <<84, 67, 78, 85>>, <<83, 78, 66, 85>>, <<66, 77, 79, 85>>, <<68, 70, 83, 85>>,
      <<83, 85, 68, 85>>, <<65, 80, 90, 85>>, <<69, 73, 83, 85>>, <<67, 65, 88, 85>>,
      <<77, 69, 68, 85>>, <<79, 79, 67, 85>>, <<84, 82, 76, 85>>, <<73, 78, 75, 85>>,
      <<77, 83, 75, 85>>, <<67, 82, 88, 85>>, <<77, 82, 75, 85>>, <<67, 88, 68, 85>> }

\* EXCLUDED_PREFIXES: "OKNO", "OKPO", "OGRN", "INN", "КПП"
EXCLUDED_PREFIXES ==
    { <<79, 75, 78, 79>>, <<79, 75, 80, 79>>, <<79, 71, 82, 78>>, <<73, 78, 78>>,
      <<1050, 1055, 1055>> }

\* MIN_CONFIDENCE_THRESHOLD = 0.8
MIN_CONFIDENCE_THRESHOLD == 80

----------------------------------------------------------------------------
(* The regular expressions.  A position p is 1-based; a match is the record *)
(* of its end (the position after it) and its groups, an end of 0 is no     *)
(* match.                                                                   *)

NoMatch == [end |-> 0, group |-> <<>>]

\* the literal lit matches text at p, letter case ignored
MatchesLit(text, p, lit) ==
    /\ p + Len(lit) - 1 <= Len(text)
    /\ \A i \in 1..Len(lit) : LowerChar(text[p + i - 1]) = lit[i]

\* \s* from p: the position after the white space
SkipSpaces(text, p) ==
    LET stops == {q \in p..(Len(text) + 1) : q > Len(text) \/ ~IsSpace(text[q])}
    IN  CHOOSE q \in stops : \A r \in stops : q <= r

\* \b at p, after a word character: the text ends or a non-word character follows
BoundaryAfter(text, p) == p > Len(text) \/ ~IsWord(text[p])

\* \b at p, before a word character: the text starts or a non-word character precedes
BoundaryBefore(text, p) == p = 1 \/ ~IsWord(text[p - 1])

\* [A-Z]{4}[-\s_]?\d{7}\b at p, letter case ignored: the end, and the positions
\* of the letters and of the digits
CodeShapeAt(text, p) ==
    IF /\ p + 3 <= Len(text)
       /\ \A i \in p..(p + 3) : IsLetterAZ(text[i])
    THEN LET q == IF /\ p + 4 <= Len(text)
                     /\ (text[p + 4] \in {45, 95} \/ IsSpace(text[p + 4]))
                  THEN p + 5 ELSE p + 4
         IN  IF /\ q + 6 <= Len(text)
                /\ \A i \in q..(q + 6) : IsDigit(text[i])
                /\ BoundaryAfter(text, q + 7)
             THEN [end |-> q + 7, letters |-> p, digits |-> q]
             ELSE [end |-> 0, letters |-> 0, digits |-> 0]
    ELSE [end |-> 0, letters |-> 0, digits |-> 0]

\* the ends of the keyword group (?:...) matched at p, in the order the regex
\* engine tries them
KeywordEnds(text, p) ==
    LET \* "наименование" and "груза" of the third alternative
        KW_NAIMENOVANIE ==
            <<1085, 1072, 1080, 1084, 1077, 1085, 1086, 1074, 1072, 1085, 1080, 1077>>
        KW_GRUZA == <<1075, 1088, 1091, 1079, 1072>>
        lit(k) == IF MatchesLit(text, p, k) THEN <<p + Len(k)>> ELSE <<>>
        gruza ==
            IF MatchesLit(text, p, KW_NAIMENOVANIE)
            THEN LET a == p + Len(KW_NAIMENOVANIE)
                     b == SkipSpaces(text, a)
                 IN  IF b > a /\ MatchesLit(text, b, KW_GRUZA)
                     THEN <<b + Len(KW_GRUZA)>> ELSE <<>>
            ELSE <<>>
        no ==
            IF MatchesLit(text, p, <<110, 111>>)
            THEN IF p + 2 <= Len(text) /\ text[p + 2] = 46
                 THEN <<p + 3, p + 2>> ELSE <<p + 2>>
            ELSE <<>>
    IN  lit(CONTAINER_KEYWORDS[1]) \o lit(CONTAINER_KEYWORDS[2]) \o gruza
        \o lit(CONTAINER_KEYWORDS[4]) \o lit(CONTAINER_KEYWORDS[5])
        \o lit(CONTAINER_KEYWORDS[6]) \o lit(CONTAINER_KEYWORDS[7])
        \o no \o lit(<<8470>>)

\* \s*(?:№|#|:)?\s*([A-Z]{4}[-\s_]?\d{7})\b at p, after the keyword
AfterKeyword(text, p) ==
    LET a == SkipSpaces(text, p)
        b == IF a <= Len(text) /\ text[a] \in {8470, 35, 58} THEN a + 1 ELSE a
        c == SkipSpaces(text, b)
        m == CodeShapeAt(text, c)
    IN  IF m.end = 0 THEN NoMatch
        ELSE [end |-> m.end, group |-> SubSeq(text, c, m.end - 1)]

\* PRIORITY_PATTERN at p: the first keyword end after which the rest matches
PriorityAt(text, p) ==
    The({ LET ok == {i \in 1..Len(ends) : AfterKeyword(text, ends[i]).end # 0}
          IN  IF ok = {} THEN NoMatch
              ELSE AfterKeyword(text, ends[CHOOSE i \in ok : \A j \in ok : i <= j]) :
          ends \in {KeywordEnds(text, p)} })

\* FALLBACK_PATTERN at p: \b([A-Z]{4})[-\s_]?(\d{7})\b; the match yields the two
\* groups, joined here as the caller joins them
FallbackAt(text, p) ==
    LET m == IF p <= Len(text) /\ BoundaryBefore(text, p)
             THEN CodeShapeAt(text, p)
             ELSE [end |-> 0, letters |-> 0, digits |-> 0]
    IN  IF m.end = 0 THEN NoMatch
        ELSE [end |-> m.end,
              group |-> SubSeq(text, m.letters, m.letters + 3)
                        \o SubSeq(text, m.digits, m.digits + 6)]

\* PRIORITY_PATTERN.findall(text) from p on: the groups of the matches, left to
\* right, none overlapping; the scan goes on from the leftmost position at or
\* after p where the pattern matches
RECURSIVE PriorityFindall(_, _)
PriorityFindall(text, p) ==
    LET starts == {q \in p..Len(text) : PriorityAt(text, q).end # 0}
    IN  IF starts = {} THEN <<>>
        ELSE The({ <<m.group>> \o PriorityFindall(text, m.end) :
                   m \in {PriorityAt(text, CHOOSE q \in starts :
                                               \A r \in starts : q <= r)} })

\* FALLBACK_PATTERN.findall(text) from p on
RECURSIVE FallbackFindall(_, _)
FallbackFindall(text, p) ==
    LET starts == {q \in p..Len(text) : FallbackAt(text, q).end # 0}
    IN  IF starts = {} THEN <<>>
        ELSE The({ <<m.group>> \o FallbackFindall(text, m.end) :
                   m \in {FallbackAt(text, CHOOSE q \in starts :
                                               \A r \in starts : q <= r)} })

----------------------------------------------------------------------------
(* tools.py: the scorer, the matcher, the normalizer.                      *)

\* code[:4].upper()
PrefixOf(code) == upper(SubSeq(code, 1, Min(4, Len(code))))

\* "груз" in keyword or "cargo" in keyword or "наименование" in keyword
IsCargoKeyword(keyword) ==
    \/ Contains(keyword, CONTAINER_KEYWORDS[4])
    \/ Contains(keyword, CONTAINER_KEYWORDS[5])
    \/ Contains(keyword, CONTAINER_KEYWORDS[11])

\* the keyword loop of _calculate_confidence: the bonus of the first keyword, in
\* the order of CONTAINER_KEYWORDS, whose first occurrence lies within 100
\* characters of the first occurrence of the code
KeywordBonus(text_lower, code) ==
    LET code_pos == Find(text_lower, lower(code))
        near == {k \in 1..Len(CONTAINER_KEYWORDS) :
                    LET keyword_pos == Find(text_lower, CONTAINER_KEYWORDS[k])
                    IN  /\ keyword_pos # -1
                        /\ code_pos # -1
                        /\ Abs(keyword_pos - code_pos) < 100}
    IN  IF near = {} THEN 0
        ELSE LET k == CHOOSE k \in near : \A j \in near : k <= j
             IN  30 + (IF IsCargoKeyword(CONTAINER_KEYWORDS[k]) THEN 20 ELSE 0)

\* the score of one candidate that is not excluded
ScoreOf(text_lower, code) ==
    30 + (IF PrefixOf(code) \in KNOWN_CONTAINER_PREFIXES THEN 50 ELSE 0)
       + KeywordBonus(text_lower, code)
       + Len(code) * 1

\* a plausible bug: the excluded prefixes are not skipped
RECURSIVE ScoredList_keepall(_, _)
ScoredList_keepall(candidates, text_lower) ==
    IF candidates = <<>> THEN <<>>
    ELSE Append(ScoredList_keepall(SubSeq(candidates, 1, Len(candidates) - 1),
                                   text_lower),
                [code |-> candidates[Len(candidates)],
                 score |-> ScoreOf(text_lower, candidates[Len(candidates)]),
                 prefix |-> PrefixOf(candidates[Len(candidates)])])

\* the for loop of _calculate_confidence: the list scored, of (code, score, prefix)
RECURSIVE ScoredList(_, _)
ScoredList(candidates, text_lower) ==
    IF candidates = <<>> THEN <<>>
    ELSE LET front == ScoredList(SubSeq(candidates, 1, Len(candidates) - 1),
                                 text_lower)
             code == candidates[Len(candidates)]
             prefix == PrefixOf(code)
         IN  IF prefix \in EXCLUDED_PREFIXES THEN front
             ELSE Append(front, [code |-> code,
                                 score |-> ScoreOf(text_lower, code),
                                 prefix |-> prefix])

\* a plausible bug: the sort is not stable, entries of equal score change places
RECURSIVE SortByScore_unstable(_)
SortByScore_unstable(scored) ==
    IF scored = <<>> THEN <<>>
    ELSE The({ LET x == scored[Len(scored)]
                   n == Cardinality({i \in 1..Len(front) :
                                        front[i].score > x.score})
               IN  SubSeq(front, 1, n) \o <<x>> \o SubSeq(front, n + 1, Len(front)) :
               front \in {SortByScore_unstable(SubSeq(scored, 1, Len(scored) - 1))} })

\* scored.sort(key=lambda x: x[1], reverse=True): a stable sort, so that entries
\* of equal score keep their order
RECURSIVE SortByScore(_)
SortByScore(scored) ==
    IF scored = <<>> THEN <<>>
    ELSE The({ LET x == scored[Len(scored)]
                   \* x goes behind every entry of a score at least its own
                   n == Cardinality({i \in 1..Len(front) :
                                        front[i].score >= x.score})
               IN  SubSeq(front, 1, n) \o <<x>> \o SubSeq(front, n + 1, Len(front)) :
               front \in {SortByScore(SubSeq(scored, 1, Len(scored) - 1))} })

\* a plausible bug: the confidence of the best candidate is not capped at 0.98
_calculate_confidence_nocap(candidates, text, method) ==
    IF candidates = <<>>
    THEN [code |-> <<>>, confidence |-> 0, reason |-> "no candidates"]
    ELSE IF Len(candidates) = 1
    THEN LET code == candidates[1]
             prefix == PrefixOf(code)
         IN  IF prefix \in EXCLUDED_PREFIXES
             THEN [code |-> <<>>, confidence |-> 0, reason |-> "excluded"]
             ELSE IF prefix \in KNOWN_CONTAINER_PREFIXES
             THEN [code |-> code, confidence |-> 98, reason |-> "known prefix"]
             ELSE [code |-> code, confidence |-> 85, reason |-> "sole candidate"]
    ELSE The({ IF scored = <<>>
               THEN [code |-> <<>>, confidence |-> 0, reason |-> "all excluded"]
               ELSE LET best == SortByScore(scored)[1]
                    IN  [code |-> best.code,
                         confidence |-> best.score,
                         reason |-> IF best.prefix \in KNOWN_CONTAINER_PREFIXES
                                    THEN "known prefix of n" ELSE "best of n"] :
               scored \in {ScoredList(candidates, lower(text))} })

\* a plausible bug: a sole candidate is scored as the candidates of a longer list
\* are
_calculate_confidence_nosole(candidates, text, method) ==
    IF candidates = <<>>
    THEN [code |-> <<>>, confidence |-> 0, reason |-> "no candidates"]
    ELSE The({ IF scored = <<>>
               THEN [code |-> <<>>, confidence |-> 0, reason |-> "all excluded"]
               ELSE LET best == SortByScore(scored)[1]
                    IN  [code |-> best.code,
                         confidence |-> Min(best.score, 98),
                         reason |-> IF best.prefix \in KNOWN_CONTAINER_PREFIXES
                                    THEN "known prefix of n" ELSE "best of n"] :
               scored \in {ScoredList(candidates, lower(text))} })

\* _calculate_confidence(candidates, text, method): (code, confidence, reason).
\* The reason is kept as the name of the return statement that formed it.
_calculate_confidence(candidates, text, method) ==
    IF candidates = <<>>
    THEN [code |-> <<>>, confidence |-> 0, reason |-> "no candidates"]
    ELSE IF Len(candidates) = 1
    THEN LET code == candidates[1]
             prefix == PrefixOf(code)
         IN  IF prefix \in EXCLUDED_PREFIXES
             THEN [code |-> <<>>, confidence |-> 0, reason |-> "excluded"]
             ELSE IF prefix \in KNOWN_CONTAINER_PREFIXES
             THEN [code |-> code, confidence |-> 98, reason |-> "known prefix"]
             ELSE [code |-> code, confidence |-> 85, reason |-> "sole candidate"]
    ELSE The({ IF scored = <<>>
               THEN [code |-> <<>>, confidence |-> 0, reason |-> "all excluded"]
               ELSE LET best == SortByScore(scored)[1]
                    IN  [code |-> best.code,
                         confidence |-> Min(best.score, 98),
                         reason |-> IF best.prefix \in KNOWN_CONTAINER_PREFIXES
                                    THEN "known prefix of n" ELSE "best of n"] :
               scored \in {ScoredList(candidates, lower(text))} })

\* the groups of a findall, normalized, those kept that pass the validation
RECURSIVE ValidOf(_)
ValidOf(matches) ==
    IF matches = <<>> THEN <<>>
    ELSE The({ IF VALIDATION_PATTERN(normalized)
               THEN Append(ValidOf(SubSeq(matches, 1, Len(matches) - 1)), normalized)
               ELSE ValidOf(SubSeq(matches, 1, Len(matches) - 1)) :
               normalized \in {StripUpper(matches[Len(matches)])} })

\* a plausible bug: the fallback pass runs whatever the priority pass kept
CandidatesOf_bothpasses(text) ==
    The({ Dedupe(priority \o ValidOf(FallbackFindall(text, 1))) :
          priority \in {ValidOf(PriorityFindall(text, 1))} })

\* the candidates regex_extract_code_direct collects: the priority pass, and the
\* fallback pass when the priority pass kept none
CandidatesOf(text) ==
    The({ Dedupe(IF priority = <<>> THEN ValidOf(FallbackFindall(text, 1))
                 ELSE priority) :
          priority \in {ValidOf(PriorityFindall(text, 1))} })

\* regex_extract_code_direct(text)
regex_extract_code_direct(text) ==
    IF text = <<>> \/ StartsWith(text, ERROR_PREFIX)
    THEN [code |-> <<>>, candidates |-> <<>>, confidence |-> 0,
          reason |-> "empty or error"]
    ELSE The({ LET r == _calculate_confidence(candidates, text, "regex")
               IN  [code |-> r.code, candidates |-> candidates,
                    confidence |-> r.confidence, reason |-> r.reason] :
               candidates \in {CandidatesOf(text)} })

\* the LangChain tool regex_extract_code: the same code behind the @tool wrapper
regex_extract_code(text) == regex_extract_code_direct(text)

\* "ERROR: пустой код"
NOTE_EMPTY_CODE ==
    <<69, 82, 82, 79, 82, 58, 32, 1087, 1091, 1089, 1090, 1086, 1081, 32, 1082,
      1086, 1076>>

\* "ERROR: код '"
NOTE_BAD_FORMAT_HEAD == <<69, 82, 82, 79, 82, 58, 32, 1082, 1086, 1076, 32, 39>>

\* "' не соответствует формату (4 буквы + 7 цифр)"
NOTE_BAD_FORMAT_TAIL ==
    <<39, 32, 1085, 1077, 32, 1089, 1086, 1086, 1090, 1074, 1077, 1090, 1089,
      1090, 1074, 1091, 1077, 1090, 32, 1092, 1086, 1088, 1084, 1072, 1090,
      1091, 32, 40, 52, 32, 1073, 1091, 1082, 1074, 1099, 32, 43, 32, 55, 32,
      1094, 1080, 1092, 1088, 41>>

\* a plausible bug: the code is returned in lower case
normalize_code_direct_lower(raw) ==
    IF raw = <<>> THEN NOTE_EMPTY_CODE
    ELSE LET normalized == StripUpper(raw)
         IN  IF ~VALIDATION_PATTERN(normalized)
             THEN NOTE_BAD_FORMAT_HEAD \o normalized \o NOTE_BAD_FORMAT_TAIL
             ELSE lower(normalized)

\* normalize_code_direct(raw)
normalize_code_direct(raw) ==
    IF raw = <<>> THEN NOTE_EMPTY_CODE
    ELSE LET normalized == StripUpper(raw)
         IN  IF ~VALIDATION_PATTERN(normalized)
             THEN NOTE_BAD_FORMAT_HEAD \o normalized \o NOTE_BAD_FORMAT_TAIL
             ELSE normalized

\* the LangChain tool normalize_code: the same code behind the @tool wrapper
normalize_code(raw) == normalize_code_direct(raw)

----------------------------------------------------------------------------
(* agent.py: the secondary extractor.                                      *)

\* "LLM вернул невалидный формат: "
REASON_LLM_INVALID ==
    <<76, 76, 77, 32, 1074, 1077, 1088, 1085, 1091, 1083, 32, 1085, 1077, 1074,
      1072, 1083, 1080, 1076, 1085, 1099, 1081, 32, 1092, 1086, 1088, 1084,
      1072, 1090, 58, 32>>

\* "LLM не нашёл валидный код"
REASON_LLM_NO_CODE ==
    <<76, 76, 77, 32, 1085, 1077, 32, 1085, 1072, 1096, 1105, 1083, 32, 1074,
      1072, 1083, 1080, 1076, 1085, 1099, 1081, 32, 1082, 1086, 1076>>

\* "Некорректный формат ответа LLM"
REASON_LLM_NO_JSON ==
    <<1053, 1077, 1082, 1086, 1088, 1088, 1077, 1082, 1090, 1085, 1099, 1081,
      32, 1092, 1086, 1088, 1084, 1072, 1090, 32, 1086, 1090, 1074, 1077,
      1090, 1072, 32, 76, 76, 77>>

\* "Ошибка LLM: "
REASON_LLM_ERROR == <<1054, 1096, 1080, 1073, 1082, 1072, 32, 76, 76, 77, 58, 32>>

\* str(e) of the exception a failing llm.invoke raises: "timeout"
LLM_ERROR_MSG == <<116, 105, 109, 101, 111, 117, 116>>

\* the check that the code occurs in the text: the normalized code is a substring
\* of the upper-cased text, or its letters and its digits both occur, their first
\* occurrences less than 20 characters apart
FoundInText(text, normalized) ==
    LET text_upper == upper(text)
        code_letters == SubSeq(normalized, 1, 4)
        code_digits == SubSeq(normalized, 5, Len(normalized))
    IN  \/ Contains(text_upper, normalized)
        \/ /\ Contains(text_upper, code_letters)
           /\ Contains(text_upper, code_digits)
           /\ Abs(Find(text_upper, code_letters) - Find(text_upper, code_digits)) < 20

\* extract_code_with_llm(text, llm), reply being what the model answered:
\* kind "error" (llm.invoke or json.loads raised), "nojson" (no {...} in the
\* answer) or "json" (the parsed dict: code, confidence, reason)
extract_code_with_llm(text, reply) ==
    LET
        \* "LLM галлюцинация: код '"
        REASON_LLM_HALLUCINATION_HEAD ==
            <<76, 76, 77, 32, 1075, 1072, 1083, 1083, 1102, 1094, 1080, 1085, 1072,
              1094, 1080, 1103, 58, 32, 1082, 1086, 1076, 32, 39>>
        \* "' не найден в тексте документа"
        REASON_LLM_HALLUCINATION_TAIL ==
            <<39, 32, 1085, 1077, 32, 1085, 1072, 1081, 1076, 1077, 1085, 32, 1074, 32,
              1090, 1077, 1082, 1089, 1090, 1077, 32, 1076, 1086, 1082, 1091, 1084,
              1077, 1085, 1090, 1072>>
        \* "LLM: "
        REASON_LLM_HEAD == <<76, 76, 77, 58, 32>>
        \* " (проверено в тексте)"
        REASON_LLM_TAIL ==
            <<32, 40, 1087, 1088, 1086, 1074, 1077, 1088, 1077, 1085, 1086, 32, 1074,
              32, 1090, 1077, 1082, 1089, 1090, 1077, 41>>
    IN
    IF reply.kind = "error"
    THEN [code |-> <<>>, confidence |-> 0, reason |-> REASON_LLM_ERROR \o LLM_ERROR_MSG]
    ELSE IF reply.kind = "nojson"
    THEN [code |-> <<>>, confidence |-> 0, reason |-> REASON_LLM_NO_JSON]
    ELSE LET code == Strip(reply.code)
         IN  IF code # <<>>
             THEN LET normalized == StripUpper(code)
                  IN  IF ~VALIDATION_PATTERN(normalized)
                      THEN [code |-> <<>>, confidence |-> 0,
                            reason |-> REASON_LLM_INVALID \o code]
                      ELSE IF ~FoundInText(text, normalized)
                      THEN [code |-> <<>>, confidence |-> 0,
                            reason |-> REASON_LLM_HALLUCINATION_HEAD \o normalized
                                       \o REASON_LLM_HALLUCINATION_TAIL]
                      ELSE [code |-> normalized,
                            confidence |-> Min(reply.confidence, 95),
                            reason |-> REASON_LLM_HEAD \o reply.reason
                                       \o REASON_LLM_TAIL]
             ELSE [code |-> <<>>, confidence |-> 0, reason |-> REASON_LLM_NO_CODE]

----------------------------------------------------------------------------
(* The file system: one folder, a path is the file's name in it.           *)

\* Path.exists()
exists(d, path) == path \in DOMAIN d

\* a plausible bug: the file is copied to the target and stays at its name too
rename_copy(d, file_path, new_path) ==
    [n \in DOMAIN d \cup {new_path} |->
        IF n = new_path THEN d[file_path] ELSE d[n]]

\* Path.rename(target) where it succeeds: the file leaves its name and takes the
\* target's, replacing silently a file found there (POSIX rename)
rename(d, file_path, new_path) ==
    [n \in (DOMAIN d \ {file_path}) \cup {new_path} |->
        IF n = new_path THEN d[file_path] ELSE d[n]]

\* the while loop of safe_rename_direct: the state is (new_path, counter)
RECURSIVE CollisionLoop(_, _, _, _)
CollisionLoop(d, new_basename, new_path, counter) ==
    IF exists(d, new_path)
    THEN CollisionLoop(d, new_basename,
                       new_basename \o <<95>> \o Str(counter) \o PDF_EXT,
                       counter + 1)
    ELSE [new_path |-> new_path, counter |-> counter]

\* a plausible bug: the collision scan is skipped
ResolveTarget_noscan(d, file_path, new_basename) ==
    [new_path |-> new_basename \o PDF_EXT, note |-> NOTE_RENAMED]

\* a plausible bug: the note reports the counter after its last increment
ResolveTarget_counter(d, file_path, new_basename) ==
    LET new_path == new_basename \o PDF_EXT
    IN  IF exists(d, new_path) /\ new_path # file_path
        THEN LET r == CollisionLoop(d, new_basename, new_path, 1)
             IN  [new_path |-> r.new_path,
                  note |-> NOTE_COLLISION \o Str(r.counter)]
        ELSE [new_path |-> new_path, note |-> NOTE_RENAMED]

\* the target path and the note safe_rename_direct computes before it acts
ResolveTarget(d, file_path, new_basename) ==
    LET new_path == new_basename \o PDF_EXT
    IN  IF exists(d, new_path) /\ new_path # file_path
        THEN LET r == CollisionLoop(d, new_basename, new_path, 1)
             IN  [new_path |-> r.new_path,
                  note |-> NOTE_COLLISION \o Str(r.counter - 1)]
        ELSE [new_path |-> new_path, note |-> NOTE_RENAMED]

\* a plausible bug: the dry run reports the naive target, without the collision scan
safe_rename_direct_naivedry(d, path, new_basename, dry_run, os_ok) ==
    IF ~exists(d, path)
    THEN [new_path |-> <<>>, note |-> NOTE_NOT_FOUND_FILE \o path, dir |-> d]
    ELSE LET t == IF dry_run THEN ResolveTarget_noscan(d, path, new_basename)
                  ELSE ResolveTarget(d, path, new_basename)
         IN  IF ~dry_run
             THEN IF t.new_path # path
                  THEN IF os_ok
                       THEN [new_path |-> t.new_path, note |-> t.note,
                             dir |-> rename(d, path, t.new_path)]
                       ELSE [new_path |-> <<>>,
                             note |-> NOTE_ERROR \o OS_ERROR_MSG(path, t.new_path),
                             dir |-> d]
                  ELSE [new_path |-> t.new_path, note |-> t.note, dir |-> d]
             ELSE [new_path |-> t.new_path, note |-> NOTE_DRY_RUN \o t.note, dir |-> d]

\* a plausible bug: the dry run carries the rename out as well
safe_rename_direct_wetdry(d, path, new_basename, dry_run, os_ok) ==
    IF ~exists(d, path)
    THEN [new_path |-> <<>>, note |-> NOTE_NOT_FOUND_FILE \o path, dir |-> d]
    ELSE LET t == ResolveTarget(d, path, new_basename)
         IN  IF t.new_path # path /\ ~os_ok /\ ~dry_run
             THEN [new_path |-> <<>>,
                   note |-> NOTE_ERROR \o OS_ERROR_MSG(path, t.new_path), dir |-> d]
             ELSE [new_path |-> t.new_path,
                   note |-> IF dry_run THEN NOTE_DRY_RUN \o t.note ELSE t.note,
                   dir |-> IF t.new_path # path THEN rename(d, path, t.new_path)
                           ELSE d]

\* safe_rename_direct(path, new_basename, dry_run) in folder d; os_ok tells whether
\* the operating system carries out Path.rename (else it raises OSError).
\* The result is the returned dict and the folder afterwards.
safe_rename_direct(d, path, new_basename, dry_run, os_ok) ==
    IF ~exists(d, path)
    THEN [new_path |-> <<>>, note |-> NOTE_NOT_FOUND_FILE \o path, dir |-> d]
    ELSE LET t == ResolveTarget(d, path, new_basename)
         IN  IF ~dry_run
             THEN IF t.new_path # path
                  THEN IF os_ok
                       THEN [new_path |-> t.new_path, note |-> t.note,
                             dir |-> rename(d, path, t.new_path)]
                       ELSE [new_path |-> <<>>,
                             note |-> NOTE_ERROR \o OS_ERROR_MSG(path, t.new_path),
                             dir |-> d]
                  ELSE [new_path |-> t.new_path, note |-> t.note, dir |-> d]
             ELSE [new_path |-> t.new_path, note |-> NOTE_DRY_RUN \o t.note, dir |-> d]

\* the LangChain tool safe_rename: the same code behind the @tool wrapper
safe_rename(d, path, new_basename, dry_run, os_ok) ==
    safe_rename_direct(d, path, new_basename, dry_run, os_ok)

\* a < b for two strings, as Python orders them: by code point, a proper prefix
\* first
StrLess(a, b) ==
    LET n == Min(Len(a), Len(b))
        diff == {i \in 1..n : a[i] # b[i]}
    IN  IF diff = {} THEN Len(a) < Len(b)
        ELSE LET i == CHOOSE i \in diff : \A j \in diff : i <= j
             IN  a[i] < b[i]

\* sorted(paths)
RECURSIVE sorted(_)
sorted(paths) ==
    IF paths = {} THEN <<>>
    ELSE LET m == CHOOSE x \in paths : \A y \in paths : x = y \/ StrLess(x, y)
         IN  <<m>> \o sorted(paths \ {m})

----------------------------------------------------------------------------
(* tools.py: the log.  The variable log holds the rows of the log file in   *)
(* use, the header line and the timestamp of each row left out.             *)

\* None, the value of tools._LOG_FILE_PATH until set_log_file is called
None == "None"

\* "NOT_FOUND" and "NO_TEXT"
TAG_NOT_FOUND == <<78, 79, 84, 95, 70, 79, 85, 78, 68>>
TAG_NO_TEXT == <<78, 79, 95, 84, 69, 88, 84>>

\* the log_entry made of a row, lines 330-339 and 390-399: row.get(key, default)
\* gives "" for a key the row lacks, and "0" for dry_run
LogEntry(row) ==
    LET Get(key, default) == IF key \in DOMAIN row THEN row[key] ELSE default
    IN  [original_path |-> Get("original_path", <<>>),
         new_path |-> Get("new_path", <<>>),
         extracted_code |-> Get("extracted_code", <<>>),
         method |-> Get("method", ""),
         confidence |-> Get("confidence", ""),
         note |-> Get("note", <<>>),
         dry_run |-> Get("dry_run", "0")]

\* log_result_direct(row, log_path): the record appended to the log, the
\* timestamp left out
log_result_direct(lg, row) == Append(lg, LogEntry(row))

\* the tool log_result(row) when tools._LOG_FILE_PATH is log_file_path: what it
\* returns, "ERROR: лог-файл не инициализирован" or "OK: запись добавлена в
\* лог", and the log afterwards
log_result(lg, log_file_path, row) ==
    IF log_file_path = None
    THEN [reply |->
              <<69, 82, 82, 79, 82, 58, 32, 1083, 1086, 1075, 45, 1092, 1072,
              1081, 1083, 32, 1085, 1077, 32, 1080, 1085, 1080, 1094, 1080, 1072,
              1083, 1080, 1079, 1080, 1088, 1086, 1074, 1072, 1085>>,
          log |-> lg]
    ELSE [reply |->
              <<79, 75, 58, 32, 1079, 1072, 1087, 1080, 1089, 1100, 32, 1076,
              1086, 1073, 1072, 1074, 1083, 1077, 1085, 1072, 32, 1074, 32, 1083,
              1086, 1075>>,
          log |-> Append(lg, LogEntry(row))]

\* analyze_log(log_path): the dict it returns, the counts it makes of the rows
\* of the log
analyze_log(lg) ==
    LET Renamed(r) == r.new_path # <<>> /\ ~StartsWith(r.note, ERROR_PREFIX)
        Skipped(r) ==
            /\ ~Renamed(r)
            /\ Contains(r.note, TAG_NOT_FOUND) \/ Contains(r.note, TAG_NO_TEXT)
    IN  [total |-> Len(lg),
         processed |-> Len(lg),
         renamed |-> Cardinality({i \in 1..Len(lg) : Renamed(lg[i])}),
         skipped |-> Cardinality({i \in 1..Len(lg) : Skipped(lg[i])}),
         errors |-> Cardinality({i \in 1..Len(lg) :
                                    ~Renamed(lg[i]) /\ ~Skipped(lg[i])})]

----------------------------------------------------------------------------
(* SpecRename: a caller (the agent, through the tools) calls safe_rename,   *)
(* log_result and set_log_file one after the other on a folder, with any    *)
(* arguments, in any order.                                                 *)

\* the file names a folder of SpecRename starts with: "a.pdf", "b.pdf", "X.pdf",
\* "X_1.pdf"; the file at InitNames[i] is file i
InitNames ==
    << <<97, 46, 112, 100, 102>>, <<98, 46, 112, 100, 102>>,
       <<88, 46, 112, 100, 102>>, <<88, 95, 49, 46, 112, 100, 102>> >>

\* a path no call creates: "zz.pdf"
MissingPath == <<122, 122, 46, 112, 100, 102>>

\* the base names asked for: "X", "a"
BaseNames == { <<88>>, <<97>> }

\* the folder holding the files of ids, each at its initial name
FolderOf(ids) ==
    [n \in {InitNames[i] : i \in ids} |->
        CHOOSE i \in ids : InitNames[i] = n]

\* the values of the variables a specification does not use
NoLocals == [p |-> <<>>]
NoCounters == [processed |-> 0, renamed |-> 0, skipped |-> 0, errors |-> 0]
NoCfg ==
    [dry_run |-> FALSE, ocr_enabled |-> FALSE, llm |-> FALSE, unicode_stdout |-> TRUE]

InitRename ==
    /\ \E ids \in (SUBSET (1..Len(InitNames))) \ {{}} : dir = FolderOf(ids)
    /\ dir0 = dir
    /\ calls = <<>>
    /\ pc = "tool"
    /\ files = <<>>
    /\ cfg = NoCfg
    /\ pdf_paths = <<>>
    /\ idx = 0
    /\ loc = NoLocals
    /\ cnt = NoCounters
    /\ log = <<>>
    /\ LOG_FILE_PATH = None
    /\ inp = <<>>
    /\ out = <<>>

\* the record of one safe_rename call: its arguments, the file at the source path
\* (0: none) and the returned dict
CallRecord(d, path, new_basename, dry_run, os_ok, r) ==
    [path |-> path, new_basename |-> new_basename, dry_run |-> dry_run,
     os_ok |-> os_ok,
     file |-> IF exists(d, path) THEN d[path] ELSE 0,
     new_path |-> r.new_path, note |-> r.note]

\* one call of the tool safe_rename, by any caller or by the agent that
\* process_with_agent runs; the calls of safe_rename and those of log_result that
\* appended to the log in use are counted
CallSafeRename ==
    /\ pc \in {"tool", "agent"}
    /\ Len(calls) + Len(log) < MaxCalls
    /\ \E path \in DOMAIN dir \cup {MissingPath}, new_basename \in BaseNames,
          dry_run \in BOOLEAN, os_ok \in BOOLEAN :
          \E r \in {safe_rename(dir, path, new_basename, dry_run, os_ok)} :
              /\ dir' = r.dir
              /\ calls' = Append(calls,
                     CallRecord(dir, path, new_basename, dry_run, os_ok, r))
    /\ UNCHANGED <<files, cfg, pc, pdf_paths, idx, loc, cnt, log, dir0, inp, out,
                   LOG_FILE_PATH>>

\* the rows the tool log_result is given: the row of a rename of "a.pdf" to
\* "X.pdf" without the key dry_run, the row of a document without a code in a
\* dry run, and the empty dict
ToolRows ==
    { [original_path |-> <<97, 46, 112, 100, 102>>,
       new_path |-> <<88, 46, 112, 100, 102>>, extracted_code |-> <<88>>,
       method |-> "regex", confidence |-> 85, note |-> NOTE_RENAMED],
      [original_path |-> <<98, 46, 112, 100, 102>>, new_path |-> <<>>,
       extracted_code |-> <<>>, method |-> "none", confidence |-> 0,
       note |-> TAG_NOT_FOUND, dry_run |-> "1"],
      <<>> }

\* set_log_file(log_path): the path is kept in tools._LOG_FILE_PATH; it names the
\* log file in use, or a file that is not there yet, created with its header
SetLogFile ==
    /\ pc = "tool"
    /\ LOG_FILE_PATH' = "log_path"
    /\ log' \in {log, <<>>}
    /\ UNCHANGED <<dir, files, cfg, pc, pdf_paths, idx, loc, cnt, calls, dir0, inp,
                   out>>

\* one call of the tool log_result; out is what it returns
CallLogResult ==
    /\ pc \in {"tool", "agent"}
    /\ Len(calls) + Len(log) < MaxCalls
    /\ \E row \in ToolRows :
          \E r \in {log_result(log, LOG_FILE_PATH, row)} :
              /\ log' = r.log
              /\ out' = r.reply
    /\ UNCHANGED <<dir, files, cfg, pc, pdf_paths, idx, loc, cnt, calls, dir0, inp,
                   LOG_FILE_PATH>>

NextRename ==
    \/ CallSafeRename
    \/ SetLogFile
    \/ CallLogResult

SpecRename == InitRename /\ [][NextRename]_vars

----------------------------------------------------------------------------
(* SpecAgent: process_with_agent (main.py:29-105).  It sets the log file up, *)
(* enumerates the folder and hands the files to the agent, which calls the  *)
(* tools as its model decides: any of them, in any order and number, with   *)
(* any arguments.  The arguments ocr_enabled and dry_run are printed, and    *)
(* ocr_enabled is named in the task; neither binds a tool call.  Of the      *)
(* tools of ALL_TOOLS, safe_rename and log_result change the folder and the *)
(* log; list_pdfs, read_pdf_text, regex_extract_code, llm_extract_code,     *)
(* ocr_extract_text and normalize_code change nothing.                      *)

InitAgent ==
    /\ \E ids \in SUBSET (1..Len(InitNames)) : dir = FolderOf(ids)
    /\ dir0 = dir
    /\ calls = <<>>
    /\ pc = "tool"
    /\ files = <<>>
    /\ cfg = NoCfg
    /\ pdf_paths = <<>>
    /\ idx = 0
    /\ loc = NoLocals
    /\ cnt = NoCounters
    /\ log = <<>>
    /\ LOG_FILE_PATH = None
    /\ inp = <<>>
    /\ out = <<>>

\* process_with_agent(folder, ocr_enabled, dry_run) is called, lines 36-66: the
\* log file is the one in use (a call within the same second as the one that
\* made it) or a new one; without a document the call returns; llm tells whether
\* create_agent_executor gave an agent, else its exception leaves the call
ProcessWithAgent ==
    /\ pc = "tool"
    /\ LOG_FILE_PATH' = "log_path"
    /\ log' \in {log, <<>>}
    /\ pdf_paths' = sorted(DOMAIN dir)
    /\ \E dry_run \in BOOLEAN, ocr_enabled \in BOOLEAN, llm \in BOOLEAN :
          /\ cfg' = [cfg EXCEPT !.dry_run = dry_run, !.ocr_enabled = ocr_enabled,
                                !.llm = llm]
          /\ IF DOMAIN dir = {}
             THEN /\ pc' = "returned"
                  /\ out' = [total |-> 0, processed |-> 0, renamed |-> 0,
                             skipped |-> 0, errors |-> 0]
             ELSE /\ pc' = IF llm THEN "agent" ELSE "raised"
                  /\ out' = out
    /\ UNCHANGED <<dir, files, idx, loc, cnt, calls, dir0, inp>>

\* lines 86-99: the agent is done, or has used up its iterations, and the counts
\* analyze_log makes of the log are returned
AgentReturns ==
    /\ pc = "agent"
    /\ pc' = "returned"
    /\ out' = analyze_log(log)
    /\ UNCHANGED <<dir, files, cfg, pdf_paths, idx, loc, cnt, log, calls, dir0, inp,
                   LOG_FILE_PATH>>

\* lines 101-105: the agent executor raises, and the error is returned, str(e)
\* being "agent failed"
AgentFails ==
    /\ pc = "agent"
    /\ pc' = "returned"
    /\ out' = [error |-> <<97, 103, 101, 110, 116, 32, 102, 97, 105, 108, 101, 100>>]
    /\ UNCHANGED <<dir, files, cfg, pdf_paths, idx, loc, cnt, log, calls, dir0, inp,
                   LOG_FILE_PATH>>

NextAgent ==
    \/ ProcessWithAgent
    \/ CallSafeRename
    \/ CallLogResult
    \/ AgentReturns
    \/ AgentFails

SpecAgent == InitAgent /\ [][NextAgent]_vars

----------------------------------------------------------------------------
(* SpecRace: one safe_rename_direct call taken in the two steps its code is  *)
(* made of, the collision scan and the rename, between which another actor  *)
(* may create a file in the folder.  Path.rename onto a path that exists     *)
(* replaces the file there on POSIX and raises FileExistsError on Windows:   *)
(* inp.posix tells which.                                                    *)

\* the file another actor creates
OTHER_FILE == 9

\* the names at which the other actor creates it: "X.pdf", "X_1.pdf", "X_2.pdf",
\* "a.pdf", "a_1.pdf"
RaceNames ==
    { <<88>> \o PDF_EXT, <<88, 95, 49>> \o PDF_EXT, <<88, 95, 50>> \o PDF_EXT,
      <<97>> \o PDF_EXT, <<97, 95, 49>> \o PDF_EXT }

\* str(e) of the FileExistsError Path.rename raises on Windows:
\* "[WinError 183] Cannot create a file when that file already exists: 'src' -> 'dst'"
FILE_EXISTS_MSG(path, new_path) ==
    <<91, 87, 105, 110, 69, 114, 114, 111, 114, 32, 49, 56, 51, 93, 32, 67, 97,
    110, 110, 111, 116, 32, 99, 114, 101, 97, 116, 101, 32, 97, 32, 102, 105, 108,
    101, 32, 119, 104, 101, 110, 32, 116, 104, 97, 116, 32, 102, 105, 108, 101,
    32, 97, 108, 114, 101, 97, 100, 121, 32, 101, 120, 105, 115, 116, 115, 58, 32>>
    \o Repr(path) \o <<32, 45, 62, 32>> \o Repr(new_path)

InitRace ==
    /\ \E ids \in (SUBSET (1..Len(InitNames))) \ {{}} : dir = FolderOf(ids)
    /\ inp \in [path : DOMAIN dir \cup {MissingPath}, new_basename : BaseNames,
                dry_run : BOOLEAN, posix : BOOLEAN]
    /\ dir0 = dir
    /\ calls = <<>>
    /\ pc = "called"
    /\ files = <<>>
    /\ cfg = NoCfg
    /\ pdf_paths = <<>>
    /\ idx = 0
    /\ loc = NoLocals
    /\ cnt = NoCounters
    /\ log = <<>>
    /\ LOG_FILE_PATH = None
    /\ out = <<>>

\* lines 356-373: the source looked up, the target and the note computed
ScanTarget ==
    /\ pc = "called"
    /\ IF ~exists(dir, inp.path)
       THEN /\ out' = [new_path |-> <<>>, note |-> NOTE_NOT_FOUND_FILE \o inp.path]
            /\ pc' = "returned"
            /\ loc' = loc
       ELSE /\ loc' = ResolveTarget(dir, inp.path, inp.new_basename)
            /\ pc' = "scanned"
            /\ out' = out
    /\ UNCHANGED <<dir, files, cfg, pdf_paths, idx, cnt, log, calls, dir0, inp,
                 LOG_FILE_PATH>>

\* another actor creates a file at a name that is free, once
OtherActorCreates ==
    /\ pc \in {"called", "scanned"}
    /\ idx = 0
    /\ \E n \in RaceNames \ DOMAIN dir :
          dir' = [m \in DOMAIN dir \cup {n} |-> IF m = n THEN OTHER_FILE ELSE dir[m]]
    /\ idx' = 1
    /\ UNCHANGED <<files, cfg, pc, pdf_paths, loc, cnt, log, calls, dir0, inp, out,
                 LOG_FILE_PATH>>

\* lines 375-384: the rename carried out, or raising, and the dict returned
RenameStep(os_ok) ==
    /\ pc = "scanned"
    /\ os_ok \/ (~inp.dry_run /\ loc.new_path # inp.path)
    /\ IF inp.dry_run
       THEN /\ out' = [new_path |-> loc.new_path, note |-> NOTE_DRY_RUN \o loc.note]
            /\ dir' = dir
       ELSE IF loc.new_path = inp.path
       THEN /\ out' = [new_path |-> loc.new_path, note |-> loc.note]
            /\ dir' = dir
       ELSE IF ~os_ok
       THEN /\ out' = [new_path |-> <<>>,
                       note |-> NOTE_ERROR \o OS_ERROR_MSG(inp.path, loc.new_path)]
            /\ dir' = dir
       ELSE IF exists(dir, loc.new_path) /\ ~inp.posix
       THEN /\ out' = [new_path |-> <<>>,
                       note |-> NOTE_ERROR \o FILE_EXISTS_MSG(inp.path, loc.new_path)]
            /\ dir' = dir
       ELSE /\ out' = [new_path |-> loc.new_path, note |-> loc.note]
            /\ dir' = rename(dir, inp.path, loc.new_path)
    /\ pc' = "returned"
    /\ UNCHANGED <<files, cfg, pdf_paths, idx, loc, cnt, log, calls, dir0, inp,
                 LOG_FILE_PATH>>

NextRace ==
    \/ ScanTarget
    \/ OtherActorCreates
    \/ \E os_ok \in BOOLEAN : RenameStep(os_ok)

SpecRace == InitRace /\ [][NextRace]_vars

----------------------------------------------------------------------------
(* main.py: process_folder_simple, one action per step of its loop.  The    *)
(* functions the try block calls catch their own exceptions; what raises in *)
(* it is a print, of a character standard output does not encode.  Two of   *)
(* its prints write such a character themselves when standard output is of  *)
(* a Cyrillic code page (line 205 U+1F4C4, line 276 U+2192); the others     *)
(* write what was read of the document, the text or a code found in it.  A  *)
(* print that raises UnicodeEncodeError has the except handler run, after   *)
(* what the lines before it counted.  cfg.unicode_stdout tells whether      *)
(* standard output encodes every character (UTF-8) or those of cp1251.  The *)
(* print of line 153, which writes the name of the file, stands before the  *)
(* try: when it raises, the exception leaves process_folder_simple.  The    *)
(* prints of a constant line of ASCII and Russian letters (lines 181, 190,  *)
(* 203, 214, 225-228) never raise.                                          *)

\* the character is one cp1251 encodes
Encodable(c) ==
    \/ c \in 0..127
    \/ c \in {160, 164, 166, 167, 169, 176, 177, 187, 1168, 1169, 8211, 8212, 8230,
              8240, 8249, 8250, 8364, 8470, 8482}
    \/ c \in 171..174 \/ c \in 181..183
    \/ c \in 1025..1036 \/ c \in 1038..1103 \/ c \in 1105..1116 \/ c \in 1118..1119
    \/ c \in 8216..8218 \/ c \in 8220..8222 \/ c \in 8224..8226

\* print(s) returns: standard output encodes every character of s
Prints(s) == cfg.unicode_stdout \/ \A i \in 1..Len(s) : Encodable(s[i])

\* "Ошибка чтения: "
NOTE_READ_ERROR ==
    <<1054, 1096, 1080, 1073, 1082, 1072, 32, 1095, 1090, 1077, 1085, 1080,
      1103, 58, 32>>

\* "OCR не смог извлечь текст"
NOTE_OCR_FAILED ==
    <<79, 67, 82, 32, 1085, 1077, 32, 1089, 1084, 1086, 1075, 32, 1080, 1079,
      1074, 1083, 1077, 1095, 1100, 32, 1090, 1077, 1082, 1089, 1090>>

\* "NO_TEXT: текст пустой, OCR выключен"
NOTE_NO_TEXT ==
    <<78, 79, 95, 84, 69, 88, 84, 58, 32, 1090, 1077, 1082, 1089, 1090, 32,
      1087, 1091, 1089, 1090, 1086, 1081, 44, 32, 79, 67, 82, 32, 1074, 1099,
      1082, 1083, 1102, 1095, 1077, 1085>>

\* "NOT_FOUND: код контейнера не найден"
NOTE_NOT_FOUND ==
    <<78, 79, 84, 95, 70, 79, 85, 78, 68, 58, 32, 1082, 1086, 1076, 32, 1082,
      1086, 1085, 1090, 1077, 1081, 1085, 1077, 1088, 1072, 32, 1085, 1077,
      32, 1085, 1072, 1081, 1076, 1077, 1085>>

\* "Критическая ошибка: "
NOTE_CRITICAL ==
    <<1050, 1088, 1080, 1090, 1080, 1095, 1077, 1089, 1082, 1072, 1103, 32,
      1086, 1096, 1080, 1073, 1082, 1072, 58, 32>>

\* "{confidence:.2f}" of a confidence in hundredths
Fixed2(confidence) ==
    Str(confidence \div 100)
        \o <<46, 48 + ((confidence % 100) \div 10), 48 + (confidence % 10)>>

\* str(e) of the UnicodeEncodeError print(s) raises on a standard output of cp1251:
\* the encoder stops at the first run of characters it does not encode,
\* "'charmap' codec can't encode character '<escape>' in position <n>: character
\* maps to <undefined>" for a run of one character, "... can't encode characters
\* in position <n>-<m>: ..." for a longer one
UnicodeEncodeError(s) ==
    LET first == CHOOSE i \in 1..Len(s) :
                     ~Encodable(s[i]) /\ \A j \in 1..(i - 1) : Encodable(s[j])
        last == CHOOSE j \in first..Len(s) :
                    /\ \A k \in first..j : ~Encodable(s[k])
                    /\ j = Len(s) \/ Encodable(s[j + 1])
        c == s[first]
        \* "'charmap' codec can't encode character"
        head ==
            <<39, 99, 104, 97, 114, 109, 97, 112, 39, 32, 99, 111, 100, 101, 99, 32,
              99, 97, 110, 39, 116, 32, 101, 110, 99, 111, 100, 101, 32, 99, 104, 97,
              114, 97, 99, 116, 101, 114>>
        esc == IF c < 256 THEN <<92, 120>> \o Hex(c, 2)
               ELSE IF c < 65536 THEN <<92, 117>> \o Hex(c, 4)
               ELSE <<92, 85>> \o Hex(c, 8)
        \* " in position "
        mid == <<32, 105, 110, 32, 112, 111, 115, 105, 116, 105, 111, 110, 32>>
        \* ": character maps to <undefined>"
        tail ==
            <<58, 32, 99, 104, 97, 114, 97, 99, 116, 101, 114, 32, 109, 97, 112,
              115, 32, 116, 111, 32, 60, 117, 110, 100, 101, 102, 105, 110, 101, 100,
              62>>
    IN  IF first = last
        THEN head \o <<32, 39>> \o esc \o <<39>> \o mid \o Str(first - 1) \o tail
        ELSE head \o <<115>> \o mid \o Str(first - 1) \o <<45>> \o Str(last - 1)
                 \o tail

\* "ERROR: Файл не найден: "
TEXT_FILE_NOT_FOUND ==
    <<69, 82, 82, 79, 82, 58, 32, 1060, 1072, 1081, 1083, 32, 1085, 1077, 32,
    1085, 1072, 1081, 1076, 1077, 1085, 58, 32>>

\* "ERROR: No /Root object! - Is this really a PDF?"
READ_ERROR_TEXT ==
    <<69, 82, 82, 79, 82, 58, 32, 78, 111, 32, 47, 82, 111, 111, 116, 32, 111,
    98, 106, 101, 99, 116, 33, 32, 45, 32, 73, 115, 32, 116, 104, 105, 115,
    32, 114, 101, 97, 108, 108, 121, 32, 97, 32, 80, 68, 70, 63>>

\* "ERROR: Poppler не установлен. Скачайте: https://github.com/oschwartz10612/
\* poppler-windows/releases/ и добавьте в PATH"
OCR_ERROR_TEXT ==
    <<69, 82, 82, 79, 82, 58, 32, 80, 111, 112, 112, 108, 101, 114, 32, 1085,
    1077, 32, 1091, 1089, 1090, 1072, 1085, 1086, 1074, 1083, 1077, 1085,
    46, 32, 1057, 1082, 1072, 1095, 1072, 1081, 1090, 1077, 58, 32, 104,
    116, 116, 112, 115, 58, 47, 47, 103, 105, 116, 104, 117, 98, 46, 99,
    111, 109, 47, 111, 115, 99, 104, 119, 97, 114, 116, 122, 49, 48, 54, 49,
    50, 47, 112, 111, 112, 112, 108, 101, 114, 45, 119, 105, 110, 100, 111,
    119, 115, 47, 114, 101, 108, 101, 97, 115, 101, 115, 47, 32, 1080, 32,
    1076, 1086, 1073, 1072, 1074, 1100, 1090, 1077, 32, 1074, 32, 80, 65,
    84, 72>>

\* "Контейнер № ABCD1234567"
TEXT_SOLE ==
    <<1050, 1086, 1085, 1090, 1077, 1081, 1085, 1077, 1088, 32, 8470, 32, 65,
    66, 67, 68, 49, 50, 51, 52, 53, 54, 55>>

\* "ОКПО OKPO1234567"
TEXT_EXCLUDED ==
    <<1054, 1050, 1055, 1054, 32, 79, 75, 80, 79, 49, 50, 51, 52, 53, 54, 55>>

\* "ABCD1234567, XYZW0000000"
TEXT_TWO ==
    <<65, 66, 67, 68, 49, 50, 51, 52, 53, 54, 55, 44, 32, 88, 89, 90, 87, 48,
    48, 48, 48, 48, 48, 48>>

\* "ABCD1234567"
CODE_ABCD ==
    <<65, 66, 67, 68, 49, 50, 51, 52, 53, 54, 55>>

\* "XYZW0000000"
CODE_XYZW ==
    <<88, 89, 90, 87, 48, 48, 48, 48, 48, 48, 48>>

\* " xyzw-0000000 "
CODE_XYZW_RAW ==
    <<32, 120, 121, 122, 119, 45, 48, 48, 48, 48, 48, 48, 48, 32>>

\* "OKPO1234567"
CODE_OKPO ==
    <<79, 75, 80, 79, 49, 50, 51, 52, 53, 54, 55>>

\* "ZZZZ9999999"
CODE_ABSENT ==
    <<90, 90, 90, 90, 57, 57, 57, 57, 57, 57, 57>>

\* "ABCD0000000": the letters of one code of TEXT_TWO and the digits of the other
CODE_MIXED ==
    <<65, 66, 67, 68, 48, 48, 48, 48, 48, 48, 48>>

\* "ABCD1234567,"
CODE_COMMA == <<65, 66, 67, 68, 49, 50, 51, 52, 53, 54, 55, 44>>

\* "found after keyword"
LLM_REASON ==
    <<102, 111, 117, 110, 100, 32, 97, 102, 116, 101, 114, 32, 107, 101, 121,
    119, 111, 114, 100>>

\* "ABCD1234567.pdf"
NAME_CODE ==
    <<65, 66, 67, 68, 49, 50, 51, 52, 53, 54, 55, 46, 112, 100, 102>>

\* "ABCD1234567_1.pdf"
NAME_CODE_1 ==
    <<65, 66, 67, 68, 49, 50, 51, 52, 53, 54, 55, 95, 49, 46, 112, 100, 102>>

\* "1→.pdf": a name with a character (U+2192) outside the Cyrillic code pages
NAME_ARROW ==
    <<49, 8594, 46, 112, 100, 102>>

\* read_pdf_text_direct(path): fs[f].text is what pdfplumber yields for file f,
\* joined and stripped, or the "ERROR: ..." string made of the exception it raises
read_pdf_text_direct(d, fs, path) ==
    IF ~exists(d, path) THEN TEXT_FILE_NOT_FOUND \o path
    ELSE fs[d[path]].text

\* ocr_extract_text_direct(path): fs[f].ocr is what the OCR yields for file f,
\* joined and stripped, or the "ERROR: ..." string of its failure
ocr_extract_text_direct(d, fs, path) ==
    IF ~exists(d, path) THEN TEXT_FILE_NOT_FOUND \o path
    ELSE fs[d[path]].ocr

\* the row the loop makes of its locals l
Row(l, new_path, extracted_code) ==
    [original_path |-> l.original_path, new_path |-> new_path,
     extracted_code |-> extracted_code, method |-> l.method,
     confidence |-> l.confidence, note |-> l.note,
     dry_run |-> IF cfg.dry_run THEN "1" ELSE "0"]

\* no result of an extractor yet
NoResult == [code |-> <<>>, candidates |-> <<>>, confidence |-> 0, reason |-> <<>>]

\* lines 155-160: the locals at the head of an iteration
InitLocals(pdf_path) ==
    [original_path |-> pdf_path, extracted_code |-> <<>>, method |-> "",
     confidence |-> 0, note |-> <<>>, new_path |-> <<>>,
     text |-> <<>>, ocr_text |-> <<>>, normalized |-> <<>>,
     regex_result |-> NoResult, llm_result |-> NoResult, via_ocr |-> FALSE]

\* the iteration goes on to its next step with the locals l
Goto(next, l) ==
    /\ pc' = next
    /\ loc' = l
    /\ UNCHANGED <<cnt, log, idx>>

\* the iteration ends (continue, or the end of the loop body) having logged row
Continue(l, c, row) ==
    /\ log' = log_result_direct(log, row)
    /\ loc' = l
    /\ cnt' = c
    /\ idx' = idx + 1
    /\ pc' = "loop"

\* lines 290-306, the except handler: the locals are l and the counters c when
\* the exception e is raised
Except(l, c, e) ==
    LET l2 == [l EXCEPT !.note = NOTE_CRITICAL \o e]
    IN  Continue(l2, [c EXCEPT !.errors = c.errors + 1],
                 Row(l2, <<>>, l2.extracted_code))

\* process_folder_simple(folder, ocr_enabled, dry_run) is called, lines 115-150;
\* llm tells whether create_gigachat_llm() gave a model
Start ==
    /\ pc = "idle"
    /\ \E dry_run \in BOOLEAN, ocr_enabled \in BOOLEAN, llm \in BOOLEAN,
          unicode_stdout \in BOOLEAN :
          cfg' = [dry_run |-> dry_run, ocr_enabled |-> ocr_enabled, llm |-> llm,
                  unicode_stdout |-> unicode_stdout]
    /\ pdf_paths' = sorted(DOMAIN dir)
    /\ cnt' = NoCounters
    /\ idx' = 1
    /\ pc' = "loop"
    /\ UNCHANGED <<dir, files, loc, log, calls, dir0, inp, out, LOG_FILE_PATH>>

\* lines 152-160, the head of the for loop: the next path, its name printed (the
\* print raising ends the call, the exception leaving it), the locals reset
NextDocument ==
    /\ pc = "loop"
    /\ idx <= Len(pdf_paths)
    /\ IF Prints(pdf_paths[idx])
       THEN pc' = "read" /\ loc' = InitLocals(pdf_paths[idx])
       ELSE pc' = "raised" /\ loc' = loc
    /\ UNCHANGED <<dir, files, cfg, pdf_paths, idx, cnt, log, calls, dir0, inp, out,
                 LOG_FILE_PATH>>

\* lines 308-326: the loop is over, the summary is returned
Finish ==
    /\ pc = "loop"
    /\ idx > Len(pdf_paths)
    /\ pc' = "done"
    /\ UNCHANGED <<dir, files, cfg, pdf_paths, idx, loc, cnt, log, calls, dir0, inp,
                   out, LOG_FILE_PATH>>

\* lines 163-181, 199-201 and 225-228: the text is read; a text that starts with
\* "ERROR" is counted and its note printed (line 168) before it is logged
ReadText ==
    /\ pc = "read"
    /\ \E text \in {read_pdf_text_direct(dir, files, loc.original_path)} :
       LET l == [loc EXCEPT !.text = text]
       IN  IF StartsWith(text, ERROR_PREFIX)
           THEN LET l2 == [l EXCEPT !.note = NOTE_READ_ERROR \o text]
                    c == [cnt EXCEPT !.errors = cnt.errors + 1]
                IN  IF Prints(l2.note)
                    THEN Continue(l2, c, [Row(l2, <<>>, <<>>) EXCEPT
                                              !.method = "read", !.confidence = 0])
                    ELSE Except(l2, c, UnicodeEncodeError(l2.note))
           ELSE IF Strip(text) # <<>> THEN Goto("regex", l)
           ELSE IF cfg.ocr_enabled THEN Goto("ocr", l)
           ELSE Goto("decide", [l EXCEPT !.note = NOTE_NO_TEXT, !.method = "none"])
    /\ UNCHANGED <<dir, files, cfg, pdf_paths, calls, dir0, inp, out, LOG_FILE_PATH>>

\* lines 182-189: the regex extractor on the text, its result printed (line 187:
\* "Regex: code='<code>', confidence=<confidence>, candidates=<number>")
RegexExtract ==
    /\ pc = "regex"
    /\ \E regex_result \in {regex_extract_code_direct(loc.text)} :
       LET l == [loc EXCEPT !.regex_result = regex_result,
                            !.extracted_code = regex_result.code,
                            !.confidence = regex_result.confidence,
                            !.method = "regex"]
           line ==
               <<82, 101, 103, 101, 120, 58, 32, 99, 111, 100, 101, 61, 39>>
                   \o l.extracted_code
                   \o <<39, 44, 32, 99, 111, 110, 102, 105, 100, 101, 110, 99, 101, 61>>
                   \o Fixed2(l.confidence)
                   \o <<44, 32, 99, 97, 110, 100, 105, 100, 97, 116, 101, 115, 61>>
                   \o Str(Len(regex_result.candidates))
       IN  IF ~Prints(line) THEN Except(l, cnt, UnicodeEncodeError(line))
           ELSE IF cfg.llm /\ (l.confidence < MIN_CONFIDENCE_THRESHOLD
                               \/ Len(regex_result.candidates) > 1)
           THEN Goto("llm", l)
           ELSE Goto("decide", l)
    /\ UNCHANGED <<dir, files, cfg, pdf_paths, calls, dir0, inp, out, LOG_FILE_PATH>>

\* lines 202-224: the OCR, its text announced (line 205: "  <U+1F4C4> OCR текст
\* извлечён (<length> символов)"), and the regex extractor on its text, its
\* result printed (line 211: " OCR Regex: code='<code>', confidence=<confidence>")
OcrExtract ==
    /\ pc = "ocr"
    /\ \E ocr_text \in {ocr_extract_text_direct(dir, files, loc.original_path)} :
       LET l == [loc EXCEPT !.ocr_text = ocr_text, !.via_ocr = TRUE]
           announced ==
               <<32, 32, 128196, 32, 79, 67, 82, 32, 1090, 1077, 1082, 1089,
                1090, 32, 1080, 1079, 1074, 1083, 1077, 1095, 1105, 1085, 32, 40>>
                   \o Str(Len(ocr_text))
                   \o <<32, 1089, 1080, 1084, 1074, 1086, 1083, 1086, 1074, 41>>
       IN  IF ~StartsWith(ocr_text, ERROR_PREFIX) /\ Strip(ocr_text) # <<>>
           THEN IF ~Prints(announced)
                THEN Except(l, cnt, UnicodeEncodeError(announced))
                ELSE \E regex_result \in {regex_extract_code_direct(ocr_text)} :
                        LET l2 == [l EXCEPT !.regex_result = regex_result,
                                            !.extracted_code = regex_result.code,
                                            !.confidence = regex_result.confidence,
                                            !.method = "ocr+regex"]
                            line ==
                                <<32, 79, 67, 82, 32, 82, 101, 103, 101, 120, 58,
                                 32, 99, 111, 100, 101, 61, 39>>
                                    \o l2.extracted_code
                                    \o <<39, 44, 32, 99, 111, 110, 102, 105, 100, 101,
                                 110, 99, 101, 61>>
                                    \o Fixed2(l2.confidence)
                        IN  IF ~Prints(line)
                            THEN Except(l2, cnt, UnicodeEncodeError(line))
                            ELSE IF cfg.llm /\ l2.confidence < MIN_CONFIDENCE_THRESHOLD
                            THEN Goto("llm", l2)
                            ELSE Goto("decide", l2)
           ELSE Goto("decide", [l EXCEPT !.note = NOTE_OCR_FAILED, !.method = "ocr"])
    /\ UNCHANGED <<dir, files, cfg, pdf_paths, calls, dir0, inp, out, LOG_FILE_PATH>>

\* a plausible bug: a secondary result of an equal confidence is adopted too
Adopts_atleast(llm_confidence, confidence) == llm_confidence >= confidence

\* lines 193 and 216: llm_result["confidence"] > confidence
Adopts(llm_confidence, confidence) == llm_confidence > confidence

\* lines 190-198 and 214-220: the secondary extractor is called with the reply the
\* model gives, and its result adopted or not; an adopted result is printed
\* (line 198: "LLM: code='<code>', confidence=<confidence>", line 220 the same
\* after a space)
ConsultLLM(reply) ==
    /\ pc = "llm"
    /\ \E llm_result \in {extract_code_with_llm(
                               IF loc.via_ocr THEN loc.ocr_text ELSE loc.text, reply)} :
       LET l == [loc EXCEPT !.llm_result = llm_result]
           l2 == [l EXCEPT !.extracted_code = llm_result.code,
                           !.confidence = llm_result.confidence,
                           !.method = IF l.via_ocr THEN "ocr+llm" ELSE "llm",
                           !.note = IF l.via_ocr THEN l.note ELSE llm_result.reason]
           line ==
               (IF l.via_ocr THEN <<32>> ELSE <<>>)
                   \o <<76, 76, 77, 58, 32, 99, 111, 100, 101, 61, 39>>
                   \o l2.extracted_code
                   \o <<39, 44, 32, 99, 111, 110, 102, 105, 100, 101, 110, 99, 101, 61>>
                   \o Fixed2(l2.confidence)
       IN  IF ~Adopts(llm_result.confidence, l.confidence) THEN Goto("decide", l)
           ELSE IF Prints(line) THEN Goto("decide", l2)
           ELSE Except(l2, cnt, UnicodeEncodeError(line))
    /\ UNCHANGED <<dir, files, cfg, pdf_paths, calls, dir0, inp, out, LOG_FILE_PATH>>

\* lines 230-262: no code, or the code normalized; a document that is skipped is
\* counted and its note printed (line 233: "Пропущен: <note>", line 249 the
\* note) before it is logged
Decide ==
    /\ pc = "decide"
    /\ IF loc.extracted_code = <<>>
       THEN LET l == [loc EXCEPT !.note = IF loc.note # <<>> THEN loc.note
                                          ELSE NOTE_NOT_FOUND]
                c == [cnt EXCEPT !.skipped = cnt.skipped + 1]
                line ==
                    <<1055, 1088, 1086, 1087, 1091, 1097, 1077, 1085, 58, 32>>
                        \o l.note
            IN  IF Prints(line) THEN Continue(l, c, Row(l, <<>>, <<>>))
                ELSE Except(l, c, UnicodeEncodeError(line))
       ELSE \E normalized \in {normalize_code_direct(loc.extracted_code)} :
            LET l == [loc EXCEPT !.normalized = normalized]
                l2 == [l EXCEPT !.note = normalized]
                c == [cnt EXCEPT !.skipped = cnt.skipped + 1]
            IN  IF ~StartsWith(normalized, ERROR_PREFIX) THEN Goto("rename", l)
                ELSE IF Prints(l2.note)
                THEN Continue(l2, c, Row(l2, <<>>, l2.extracted_code))
                ELSE Except(l2, c, UnicodeEncodeError(l2.note))
    /\ UNCHANGED <<dir, files, cfg, pdf_paths, calls, dir0, inp, out, LOG_FILE_PATH>>

\* lines 264-288: the rename, its outcome counted, printed (line 272 the note of
\* a failure, line 276 "<extracted_code> <U+2192> <new name> (<method>,
\* <confidence>)") and logged; os_ok tells whether the operating system carries
\* out a rename that is attempted
Rename(os_ok) ==
    /\ pc = "rename"
    /\ os_ok \/ ( /\ ~cfg.dry_run
                  /\ ResolveTarget(dir, loc.original_path, loc.normalized).new_path
                        # loc.original_path )
    /\ \E r \in {safe_rename_direct(dir, loc.original_path, loc.normalized,
                                   cfg.dry_run, os_ok)} :
       LET l == [loc EXCEPT !.new_path = r.new_path, !.note = r.note]
           failed == [cnt EXCEPT !.errors = cnt.errors + 1]
           done == [cnt EXCEPT !.renamed = cnt.renamed + 1]
           method ==
               CASE l.method = "regex" -> <<114, 101, 103, 101, 120>>
                 [] l.method = "llm" -> <<108, 108, 109>>
                 [] l.method = "ocr+regex" -> <<111, 99, 114, 43, 114, 101, 103, 101, 120>>
                 [] l.method = "ocr+llm" -> <<111, 99, 114, 43, 108, 108, 109>>
           line ==
               l.extracted_code \o <<32, 8594, 32>> \o l.new_path \o <<32, 40>>
                   \o method \o <<44, 32>> \o Fixed2(l.confidence) \o <<41>>
       IN  /\ dir' = r.dir
           /\ calls' = Append(calls, CallRecord(dir, loc.original_path,
                                  loc.normalized, cfg.dry_run, os_ok, r))
           /\ IF r.new_path = <<>> \/ StartsWith(r.note, ERROR_PREFIX)
              THEN IF Prints(l.note)
                   THEN Continue(l, [failed EXCEPT !.processed = cnt.processed + 1],
                                 Row(l, l.new_path, l.normalized))
                   ELSE Except(l, failed, UnicodeEncodeError(l.note))
              ELSE IF Prints(line)
              THEN Continue(l, [done EXCEPT !.processed = cnt.processed + 1],
                            Row(l, l.new_path, l.normalized))
              ELSE Except(l, done, UnicodeEncodeError(line))
    /\ UNCHANGED <<files, cfg, pdf_paths, dir0, inp, out, LOG_FILE_PATH>>

\* the replies of the model the secondary extractor is checked with: the call
\* fails; the reply holds no JSON; or a JSON object with a code, a confidence
\* (hundredths) and a reason
LLMReplies ==
    { [kind |-> "error", code |-> <<>>, confidence |-> 0, reason |-> <<>>],
      [kind |-> "nojson", code |-> <<>>, confidence |-> 0, reason |-> <<>>],
      [kind |-> "json", code |-> <<>>, confidence |-> 0, reason |-> LLM_REASON],
      [kind |-> "json", code |-> CODE_ABCD, confidence |-> 90, reason |-> LLM_REASON],
      [kind |-> "json", code |-> CODE_XYZW, confidence |-> 90, reason |-> LLM_REASON],
      [kind |-> "json", code |-> CODE_XYZW_RAW, confidence |-> 41,
       reason |-> LLM_REASON],
      [kind |-> "json", code |-> CODE_OKPO, confidence |-> 100, reason |-> LLM_REASON],
      [kind |-> "json", code |-> CODE_ABSENT, confidence |-> 90,
       reason |-> LLM_REASON],
      [kind |-> "json", code |-> CODE_COMMA, confidence |-> 90, reason |-> LLM_REASON],
      [kind |-> "json", code |-> CODE_MIXED, confidence |-> 90, reason |-> LLM_REASON],
      \* "XYZW" and the Arabic-Indic digits 1 to 7, U+0661..U+0667
      [kind |-> "json",
       code |-> <<88, 89, 90, 87, 1633, 1634, 1635, 1636, 1637, 1638, 1639>>,
       confidence |-> 90, reason |-> LLM_REASON],
      \* "ABCD1234567\n-": a line feed and a hyphen after the code
      [kind |-> "json",
       code |-> <<65, 66, 67, 68, 49, 50, 51, 52, 53, 54, 55, 10, 45>>,
       confidence |-> 90, reason |-> LLM_REASON] }

\* the documents a folder is made of: what read_pdf_text_direct and
\* ocr_extract_text_direct yield for each
DocKinds ==
    { [text |-> TEXT_SOLE, ocr |-> <<>>],
      [text |-> TEXT_EXCLUDED, ocr |-> <<>>],
      [text |-> TEXT_TWO, ocr |-> <<>>],
      [text |-> READ_ERROR_TEXT, ocr |-> <<>>],
      [text |-> <<>>, ocr |-> OCR_ERROR_TEXT],
      [text |-> <<>>, ocr |-> TEXT_TWO],
      \* texts with the Arabic-Indic digits 1 to 7, U+0661..U+0667, which \d
      \* matches and cp1251 does not encode: "ERROR" and the digits; "ABCD" and
      \* the digits; "ABCD1234567, XYZW" and the digits
      [text |-> <<69, 82, 82, 79, 82, 32, 1633, 1634, 1635, 1636, 1637, 1638,
               1639>>,
       ocr |-> <<>>],
      [text |-> <<65, 66, 67, 68, 1633, 1634, 1635, 1636, 1637, 1638, 1639>>,
       ocr |-> <<>>],
      [text |-> <<65, 66, 67, 68, 49, 50, 51, 52, 53, 54, 55, 44, 32, 88, 89, 90,
               87, 1633, 1634, 1635, 1636, 1637, 1638, 1639>>,
       ocr |-> <<>>],
      \* "ABCD1234567\nXYZW0000000": two codes, a line feed after the first
      [text |-> <<65, 66, 67, 68, 49, 50, 51, 52, 53, 54, 55, 10, 88, 89, 90, 87,
               48, 48, 48, 48, 48, 48, 48>>,
       ocr |-> <<>>] }

\* the file names of the folder; the file at DocNames[i] is file i
DocNames == <<NAME_CODE, NAME_CODE_1, NAME_ARROW>>

\* the folder holding the files of ids, each at its name
DocFolderOf(ids) ==
    [n \in {DocNames[i] : i \in ids} |-> CHOOSE i \in ids : DocNames[i] = n]

Init ==
    /\ \E ids \in SUBSET (1..Len(DocNames)) :
          /\ Cardinality(ids) <= MaxDocs
          /\ dir = DocFolderOf(ids)
          /\ files \in [ids -> DocKinds]
    /\ dir0 = dir
    /\ calls = <<>>
    /\ pc = "idle"
    /\ cfg = NoCfg
    /\ pdf_paths = <<>>
    /\ idx = 0
    /\ loc = NoLocals
    /\ cnt = NoCounters
    /\ log = <<>>
    /\ LOG_FILE_PATH = None
    /\ inp = <<>>
    /\ out = <<>>

Next ==
    \/ Start
    \/ NextDocument
    \/ ReadText
    \/ RegexExtract
    \/ OcrExtract
    \/ \E reply \in LLMReplies : ConsultLLM(reply)
    \/ Decide
    \/ \E os_ok \in BOOLEAN : Rename(os_ok)
    \/ Finish

Spec == Init /\ [][Next]_vars

----------------------------------------------------------------------------
(* SpecScore: _calculate_confidence applied to a candidate list and a text. *)

\* "TEMU1111111"
CODE_TEMU == <<84, 69, 77, 85, 49, 49, 49, 49, 49, 49, 49>>

\* "AAAA1111111" and "CCCC3333333"
CODE_AAAA == <<65, 65, 65, 65, 49, 49, 49, 49, 49, 49, 49>>
CODE_CCCC == <<67, 67, 67, 67, 51, 51, 51, 51, 51, 51, 51>>

\* the codes the candidate lists are made of: "OKPO1234567", "okno7654321",
\* "OGRN0000001", "INNA1234567", "ABCD1234567", "TEMU1111111", "AAAA1111111",
\* "CCCC3333333"
ScoreCodes ==
    { CODE_OKPO,
      <<111, 107, 110, 111, 55, 54, 53, 52, 51, 50, 49>>,
      <<79, 71, 82, 78, 48, 48, 48, 48, 48, 48, 49>>,
      <<73, 78, 78, 65, 49, 50, 51, 52, 53, 54, 55>>,
      CODE_ABCD,
      CODE_TEMU,
      CODE_AAAA,
      CODE_CCCC }

\* 120 full stops: what keeps two parts of a text more than 100 characters apart
FILLER == [i \in 1..120 |-> 46]

\* "AAAA1111111", the filler, "контейнер № CCCC3333333"
TEXT_NEAR ==
    CODE_AAAA \o FILLER \o
    <<1082, 1086, 1085, 1090, 1077, 1081, 1085, 1077, 1088, 32, 8470, 32, 67, 67,
    67, 67, 51, 51, 51, 51, 51, 51, 51>>

\* "AAAA1111111", the filler, "контейнер № CCCC-3333333": the code the keyword
\* stands by is written with a hyphen
TEXT_SEPARATED ==
    CODE_AAAA \o FILLER \o
    <<1082, 1086, 1085, 1090, 1077, 1081, 1085, 1077, 1088, 32, 8470, 32, 67, 67,
    67, 67, 45, 51, 51, 51, 51, 51, 51, 51>>

\* "контейнер", the filler, "AAAA1111111", the filler, "контейнер CCCC3333333":
\* the keyword by the code is the second occurrence of the keyword
TEXT_SECOND_OCCURRENCE ==
    <<1082, 1086, 1085, 1090, 1077, 1081, 1085, 1077, 1088>> \o FILLER \o CODE_AAAA \o FILLER \o
    <<1082, 1086, 1085, 1090, 1077, 1081, 1085, 1077, 1088, 32, 67, 67, 67, 67,
    51, 51, 51, 51, 51, 51, 51>>

\* "груз AAAA1111111", the filler, "груз TEMU1111111": the cargo keyword stands
\* by both codes, its first occurrence by the first only
TEXT_CARGO_FAR ==
    <<1075, 1088, 1091, 1079, 32>> \o CODE_AAAA \o FILLER \o
    <<1075, 1088, 1091, 1079, 32>> \o CODE_TEMU

\* the texts: TEXT_EXCLUDED, TEXT_TWO, "Cargo OKPO1234567 TEMU1111111" and the
\* four texts above
ScoreTexts ==
    { TEXT_EXCLUDED, TEXT_TWO,
      <<67, 97, 114, 103, 111, 32, 79, 75, 80, 79, 49, 50, 51, 52, 53, 54, 55, 32,
        84, 69, 77, 85, 49, 49, 49, 49, 49, 49, 49>>,
      TEXT_NEAR, TEXT_SEPARATED, TEXT_SECOND_OCCURRENCE, TEXT_CARGO_FAR }

\* the sequences over S of a length up to n
SeqsUpTo(S, n) == UNION {[1..k -> S] : k \in 0..n}

InitScore ==
    /\ inp \in [candidates : SeqsUpTo(ScoreCodes, MaxCands), text : ScoreTexts]
    /\ out = <<>>
    /\ pc = "score"
    /\ dir = <<>>
    /\ dir0 = dir
    /\ calls = <<>>
    /\ files = <<>>
    /\ cfg = NoCfg
    /\ pdf_paths = <<>>
    /\ idx = 0
    /\ loc = NoLocals
    /\ cnt = NoCounters
    /\ log = <<>>
    /\ LOG_FILE_PATH = None

\* the scorer is called
CallCalculateConfidence ==
    /\ pc = "score"
    /\ out' = _calculate_confidence(inp.candidates, inp.text, "regex")
    /\ pc' = "scored"
    /\ UNCHANGED <<dir, files, cfg, pdf_paths, idx, loc, cnt, log, calls, dir0, inp,
                 LOG_FILE_PATH>>

NextScore == CallCalculateConfidence

SpecScore == InitScore /\ [][NextScore]_vars

----------------------------------------------------------------------------
(* SpecNorm: the normalizer applied to a string, and again to its result.   *)

\* the strings the normalizer is given are made of four parts: what stands for
\* the letters, a separator, what stands for the digits, and a tail.
NormInputs ==
    LET
        \* "", "ABCD", "abcd", "A-b_C d", "ABC", "ABCDE"
        NormLetters ==
            { <<>>, <<65, 66, 67, 68>>, <<97, 98, 99, 100>>,
              <<65, 45, 98, 95, 67, 32, 100>>, <<65, 66, 67>>, <<65, 66, 67, 68, 69>> }
        \* "", "-", " ", "_", a line feed
        NormSeparators == { <<>>, <<45>>, <<32>>, <<95>>, <<10>> }
        \* "", "1234567", "123456", "12345678", "12 34-5_67", and 1234567 in
        \* Arabic-Indic digits
        NormDigits ==
            { <<>>, <<49, 50, 51, 52, 53, 54, 55>>, <<49, 50, 51, 52, 53, 54>>,
              <<49, 50, 51, 52, 53, 54, 55, 56>>,
              <<49, 50, 32, 51, 52, 45, 53, 95, 54, 55>>,
              <<1633, 1634, 1635, 1636, 1637, 1638, 1639>> }
        \* "", a line feed, " ", "X"
        NormTails == { <<>>, <<10>>, <<32>>, <<88>> }
    IN
    { a \o b \o c \o e : a \in NormLetters, b \in NormSeparators,
                         c \in NormDigits, e \in NormTails }

\* the function inp.fn names, applied
ApplyNormalizer(fn, raw) ==
    IF fn = "normalize_code" THEN normalize_code(raw)
    ELSE normalize_code_direct(raw)

InitNorm ==
    /\ inp \in [fn : {"normalize_code", "normalize_code_direct"}, raw : NormInputs]
    /\ out = <<>>
    /\ pc = "norm"
    /\ dir = <<>>
    /\ dir0 = dir
    /\ calls = <<>>
    /\ files = <<>>
    /\ cfg = NoCfg
    /\ pdf_paths = <<>>
    /\ idx = 0
    /\ loc = NoLocals
    /\ cnt = NoCounters
    /\ log = <<>>
    /\ LOG_FILE_PATH = None

\* the normalizer is called on the string
CallNormalize ==
    /\ pc = "norm"
    /\ out' = [first |-> ApplyNormalizer(inp.fn, inp.raw), second |-> <<>>]
    /\ pc' = "normed"
    /\ UNCHANGED <<dir, files, cfg, pdf_paths, idx, loc, cnt, log, calls, dir0, inp,
                 LOG_FILE_PATH>>

\* the normalizer is called on what it returned
CallNormalizeAgain ==
    /\ pc = "normed"
    /\ out' = [out EXCEPT !.second = ApplyNormalizer(inp.fn, out.first)]
    /\ pc' = "renormed"
    /\ UNCHANGED <<dir, files, cfg, pdf_paths, idx, loc, cnt, log, calls, dir0, inp,
                 LOG_FILE_PATH>>

NextNorm == CallNormalize \/ CallNormalizeAgain

SpecNorm == InitNorm /\ [][NextNorm]_vars

----------------------------------------------------------------------------
(* SpecExtract: the regex extractor applied to a text.                      *)

\* "Коды: AAAA1111111, BBBB2222222, контейнер № CCCC3333333"
TEXT_THREE ==
    <<1050, 1086, 1076, 1099, 58, 32, 65, 65, 65, 65, 49, 49, 49, 49, 49, 49, 49,
    44, 32, 66, 66, 66, 66, 50, 50, 50, 50, 50, 50, 50, 44, 32, 1082, 1086, 1085,
    1090, 1077, 1081, 1085, 1077, 1088, 32, 8470, 32, 67, 67, 67, 67, 51, 51, 51,
    51, 51, 51, 51>>

\* "ABCD1234567, код XYZW0000000, код ABCD1234567"
TEXT_ANCHORED_LATER ==
    <<65, 66, 67, 68, 49, 50, 51, 52, 53, 54, 55, 44, 32, 1082, 1086, 1076, 32,
    88, 89, 90, 87, 48, 48, 48, 48, 48, 48, 48, 44, 32, 1082, 1086, 1076, 32, 65,
    66, 67, 68, 49, 50, 51, 52, 53, 54, 55>>

\* the texts: two segments joined, the two texts above, and the empty text
ExtractTexts ==
    LET
        \* the segments the texts are made of: "ABCD1234567", "abcd-1234567",
        \* "Контейнер № CCCC3333333", "код TEMU 1111111", "OKPO1234567", "ABCD" and
        \* "1234567" on two lines, "ERROR: x", "AB123456", "XABCD12345678",
        \* "cargo: okpo_1234567", "container MSCU9876543", "Обычный текст"
        ExtractSegments ==
            { <<65, 66, 67, 68, 49, 50, 51, 52, 53, 54, 55>>,
              <<97, 98, 99, 100, 45, 49, 50, 51, 52, 53, 54, 55>>,
              <<1050, 1086, 1085, 1090, 1077, 1081, 1085, 1077, 1088, 32, 8470, 32, 67,
              67, 67, 67, 51, 51, 51, 51, 51, 51, 51>>,
              <<1082, 1086, 1076, 32, 84, 69, 77, 85, 32, 49, 49, 49, 49, 49, 49, 49>>,
              <<79, 75, 80, 79, 49, 50, 51, 52, 53, 54, 55>>,
              <<65, 66, 67, 68, 10, 49, 50, 51, 52, 53, 54, 55>>,
              <<69, 82, 82, 79, 82, 58, 32, 120>>,
              <<65, 66, 49, 50, 51, 52, 53, 54>>,
              <<88, 65, 66, 67, 68, 49, 50, 51, 52, 53, 54, 55, 56>>,
              <<99, 97, 114, 103, 111, 58, 32, 111, 107, 112, 111, 95, 49, 50, 51, 52, 53,
              54, 55>>,
              <<99, 111, 110, 116, 97, 105, 110, 101, 114, 32, 77, 83, 67, 85, 57, 56, 55,
              54, 53, 52, 51>>,
              <<1054, 1073, 1099, 1095, 1085, 1099, 1081, 32, 1090, 1077, 1082, 1089,
              1090>> }
        \* what joins two segments: ", " and a line feed
        ExtractGlues == { <<44, 32>>, <<10>> }
    IN
    { a \o g \o b : a \in ExtractSegments, g \in ExtractGlues, b \in ExtractSegments }
        \cup { TEXT_THREE, TEXT_ANCHORED_LATER, <<>> }

\* the function inp.fn names, applied
ApplyExtractor(fn, text) ==
    IF fn = "regex_extract_code" THEN regex_extract_code(text)
    ELSE regex_extract_code_direct(text)

InitExtract ==
    /\ inp \in [fn : {"regex_extract_code", "regex_extract_code_direct"},
                text : ExtractTexts]
    /\ out = <<>>
    /\ pc = "extract"
    /\ dir = <<>>
    /\ dir0 = dir
    /\ calls = <<>>
    /\ files = <<>>
    /\ cfg = NoCfg
    /\ pdf_paths = <<>>
    /\ idx = 0
    /\ loc = NoLocals
    /\ cnt = NoCounters
    /\ log = <<>>
    /\ LOG_FILE_PATH = None

\* the extractor is called on the text
CallRegexExtract ==
    /\ pc = "extract"
    /\ out' = ApplyExtractor(inp.fn, inp.text)
    /\ pc' = "extracted"
    /\ UNCHANGED <<dir, files, cfg, pdf_paths, idx, loc, cnt, log, calls, dir0, inp,
                 LOG_FILE_PATH>>

NextExtract == CallRegexExtract

SpecExtract == InitExtract /\ [][NextExtract]_vars

----------------------------------------------------------------------------
(* SpecTwice: a dry run of process_folder_simple, and then the real run of  *)
(* the same batch on the folder the dry run has left.                       *)

\* process_folder_simple is called again, with dry_run=False and otherwise as the
\* dry run that has returned was.  The name of the log file is made of the time
\* in seconds (main.py:115-121): the call finds the log file of the dry run and
\* appends to it, or it makes a new one.  The rows the dry run logged are kept
\* in inp, with the number of rows the log has when the real run starts
StartAgain ==
    /\ pc = "done"
    /\ cfg.dry_run
    /\ inp = <<>>
    /\ log' \in {log, <<>>}
    /\ inp' = [dry_log |-> log, kept |-> Len(log')]
    /\ cfg' = [cfg EXCEPT !.dry_run = FALSE]
    /\ pdf_paths' = sorted(DOMAIN dir)
    /\ cnt' = NoCounters
    /\ idx' = 1
    /\ pc' = "loop"
    /\ UNCHANGED <<dir, files, loc, calls, dir0, out, LOG_FILE_PATH>>

\* the replies of the model in the two runs: the call fails, or a code of the
\* text is given with confidence 0.9
TwiceReplies ==
    { [kind |-> "error", code |-> <<>>, confidence |-> 0, reason |-> <<>>],
      [kind |-> "json", code |-> CODE_XYZW, confidence |-> 90, reason |-> LLM_REASON] }

\* the two runs; the operating system carries out every rename
NextTwice ==
    \/ Start
    \/ NextDocument
    \/ ReadText
    \/ RegexExtract
    \/ OcrExtract
    \/ \E reply \in TwiceReplies : ConsultLLM(reply)
    \/ Decide
    \/ Rename(TRUE)
    \/ Finish
    \/ StartAgain

SpecTwice == Init /\ [][NextTwice]_vars

----------------------------------------------------------------------------
(* SpecAll: the behaviours of SpecRename and those of Spec.                 *)

InitAll == InitRename \/ Init

NextAll == NextRename \/ Next

SpecAll == InitAll /\ [][NextAll]_vars

----------------------------------------------------------------------------
(* Claims about safe_rename, checked under SpecRename.                      *)

\* the calls made so far all rename existing, pairwise distinct source files to one
\* base name, none a dry run
SameBaseSequence ==
    /\ \A i \in 1..Len(calls) :
          /\ ~calls[i].dry_run
          /\ calls[i].file # 0
          /\ calls[i].new_basename = calls[1].new_basename
    /\ \A i, j \in 1..Len(calls) : i # j => calls[i].file # calls[j].file

\* C1: collision safety.  When the calls made so far are non-dry-run calls renaming
\* pairwise distinct existing files to the same base name, the paths they returned
\* are pairwise distinct, and each file is found at the path returned for it.
C1_CollisionSafety ==
    SameBaseSequence =>
        /\ \A i, j \in 1..Len(calls) :
              (i # j /\ calls[i].new_path # <<>> /\ calls[j].new_path # <<>>)
                  => calls[i].new_path # calls[j].new_path
        /\ \A i \in 1..Len(calls) :
              calls[i].new_path # <<>> =>
                  /\ exists(dir, calls[i].new_path)
                  /\ dir[calls[i].new_path] = calls[i].file

\* C1, its case: two files were renamed to one base name, the second with a suffix
C1_Witness ==
    /\ SameBaseSequence
    /\ Len(calls) = 2
    /\ calls[1].new_path = calls[1].new_basename \o PDF_EXT
    /\ calls[1].new_path # calls[1].path
    /\ calls[2].new_path = calls[2].new_basename \o <<95, 49>> \o PDF_EXT

\* the call a step has just made: the step appended it to the history
JustCalled == Len(calls') = Len(calls) + 1

\* C2: no clobbering.  Every call that renames moves the file to its own path or
\* to a path that did not exist; every other file stays at its name, and the
\* folder holds the same files, as many as before.
C2_NoClobber ==
    [][JustCalled =>
        LET c == calls'[Len(calls')]
        IN  /\ (~c.dry_run /\ c.new_path # <<>>) =>
                  (c.new_path = c.path \/ ~exists(dir, c.new_path))
            /\ \A n \in DOMAIN dir \ {c.path} : exists(dir', n) /\ dir'[n] = dir[n]
            /\ Cardinality(DOMAIN dir') = Cardinality(DOMAIN dir)
            /\ {dir'[n] : n \in DOMAIN dir'} = {dir[n] : n \in DOMAIN dir}]_vars

\* C2, its case: a call renamed a file past an existing target, with a suffix
C2_Witness ==
    \E i \in 1..Len(calls) :
        /\ ~calls[i].dry_run
        /\ calls[i].new_path # <<>>
        /\ calls[i].new_path # calls[i].path
        /\ StartsWith(calls[i].note, NOTE_COLLISION)
        /\ exists(dir, calls[i].new_basename \o PDF_EXT)

\* a dry run of a call followed at once by the call itself: same arguments, and
\* the same folder, a dry run changing nothing
DryThenReal(i) ==
    /\ i + 1 <= Len(calls)
    /\ calls[i].dry_run
    /\ ~calls[i + 1].dry_run
    /\ calls[i].path = calls[i + 1].path
    /\ calls[i].new_basename = calls[i + 1].new_basename

\* C4 as stated: for every source path, the dry run returns the path of the real
\* call and the real call's note behind "DRY RUN: ".
C4_AsStated ==
    \A i \in 1..Len(calls) :
        DryThenReal(i) =>
            /\ calls[i].new_path = calls[i + 1].new_path
            /\ calls[i].note = NOTE_DRY_RUN \o calls[i + 1].note

\* C4, amended: when the source exists and the real call's rename does not raise,
\* the dry run returns the path of the real call and the real call's note behind
\* "DRY RUN: "; when the source does not exist both return the same error dict,
\* the note without the tag.
C4_DryRunFidelity ==
    \A i \in 1..Len(calls) :
        DryThenReal(i) =>
            /\ (calls[i].file # 0 /\ calls[i + 1].new_path # <<>>) =>
                  /\ calls[i].new_path = calls[i + 1].new_path
                  /\ calls[i].note = NOTE_DRY_RUN \o calls[i + 1].note
            /\ calls[i].file = 0 =>
                  /\ calls[i].new_path = <<>>
                  /\ calls[i + 1].new_path = <<>>
                  /\ calls[i].note = calls[i + 1].note
                  /\ StartsWith(calls[i].note, ERROR_PREFIX)

\* C4, its case: a dry run and then the real call, both past an existing target
C4_Witness ==
    \E i \in 1..Len(calls) :
        /\ DryThenReal(i)
        /\ calls[i].file # 0
        /\ calls[i + 1].new_path # <<>>
        /\ StartsWith(calls[i + 1].note, NOTE_COLLISION)

----------------------------------------------------------------------------
(* Claims about the dry-run mode, checked under SpecAll.                    *)

\* C3: a dry run never changes the folder.  While every safe_rename call made so
\* far was a dry run the folder is what it was at the start, and throughout a
\* process_folder_simple run in dry-run mode the folder is what it was at the
\* start: the same names, each holding the same file.
C3_DryRunFrame ==
    /\ (\A i \in 1..Len(calls) : calls[i].dry_run) => dir = dir0
    /\ (pc # "tool" /\ cfg.dry_run) => dir = dir0

\* a dry-run batch is over in which a rename to a new name was simulated
C3_Witness ==
    /\ pc = "done"
    /\ cfg.dry_run
    /\ \E i \in 1..Len(calls) :
          /\ calls[i].dry_run
          /\ calls[i].new_path # <<>>
          /\ calls[i].new_path # calls[i].path

----------------------------------------------------------------------------
(* Claims about the scorer, checked under SpecScore.                        *)

\* every candidate of the list has an excluded prefix
AllExcluded(candidates) ==
    \A i \in 1..Len(candidates) : PrefixOf(candidates[i]) \in EXCLUDED_PREFIXES

\* C5: the exclusion invariant of the scorer.  The code _calculate_confidence
\* returns never has a prefix of the excluded table, and a list whose candidates
\* are all excluded (a sole excluded candidate included) yields ("", 0.0).
C5_ExclusionInvariant ==
    pc = "scored" =>
        /\ out.code # <<>> => PrefixOf(out.code) \notin EXCLUDED_PREFIXES
        /\ (inp.candidates # <<>> /\ AllExcluded(inp.candidates)) =>
              (out.code = <<>> /\ out.confidence = 0)

\* the scorer was given two candidates, the first excluded, the second not, and
\* returned the second
C5_Witness ==
    /\ pc = "scored"
    /\ Len(inp.candidates) = 2
    /\ PrefixOf(inp.candidates[1]) \in EXCLUDED_PREFIXES
    /\ PrefixOf(inp.candidates[2]) \notin EXCLUDED_PREFIXES
    /\ out.code = inp.candidates[2]

----------------------------------------------------------------------------
(* Claims about process_folder_simple, checked under Spec.                  *)

\* the shape of a container code: 4 upper-case Latin letters followed by 7 digits,
\* the digits being what \d of the shape matches
IsContainerCode(s) ==
    /\ Len(s) = 11
    /\ \A i \in 1..4 : IsUpperAZ(s[i])
    /\ \A i \in 5..11 : IsDigit(s[i])

\* C6: a code with an excluded prefix is never the final code of a document:
\* no rename is asked for such a base name and no log record carries such a code,
\* whichever extractor the code came from.
C6_NoExcludedFinalCode ==
    /\ \A i \in 1..Len(calls) :
          PrefixOf(calls[i].new_basename) \notin EXCLUDED_PREFIXES
    /\ \A i \in 1..Len(log) :
          log[i].extracted_code # <<>> =>
              PrefixOf(log[i].extracted_code) \notin EXCLUDED_PREFIXES

\* C7: every document enumerated yields exactly one log record.  When idx - 1
\* iterations are over the log holds idx - 1 records, the i-th that of the i-th
\* path; within an iteration no record of its document is written yet; and when
\* the call is over, returned or left by an exception, every path enumerated has
\* its record.
C7_OneRecordPerDocument ==
    pc \in {"loop", "read", "regex", "ocr", "llm", "decide", "rename", "done",
            "raised"} =>
        /\ Len(log) = idx - 1
        /\ \A i \in 1..Len(log) : log[i].original_path = pdf_paths[i]
        /\ pc \in {"done", "raised"} => Len(log) = Len(pdf_paths)

\* C8: when no code survives extraction (line 230 finds extracted_code empty),
\* normalization and rename are not invoked, the folder is left as it is, and the
\* record logged has an empty new path and a note containing NOT_FOUND or
\* NO_TEXT.
C8_NoCodeIsSkipped ==
    [][(pc = "decide" /\ loc.extracted_code = <<>>) =>
          /\ calls' = calls
          /\ dir' = dir
          /\ loc'.normalized = <<>>
          /\ Len(log') = Len(log) + 1
          /\ log'[Len(log')].new_path = <<>>
          /\ \/ Contains(log'[Len(log')].note, TAG_NOT_FOUND)
             \/ Contains(log'[Len(log')].note, TAG_NO_TEXT)]_vars

\* C9: every base name passed to the rename step, and every non-empty
\* extracted_code of a log record, is 4 upper-case Latin letters followed by 7
\* digits; the rename step is reached only with the value normalize_code_direct
\* returned, which is no error.
C9_OnlyValidCodes ==
    /\ \A i \in 1..Len(calls) : IsContainerCode(calls[i].new_basename)
    /\ \A i \in 1..Len(log) :
          log[i].extracted_code # <<>> => IsContainerCode(log[i].extracted_code)
    /\ pc = "rename" =>
          /\ loc.normalized = normalize_code_direct(loc.extracted_code)
          /\ ~StartsWith(loc.normalized, ERROR_PREFIX)

\* C10: the secondary result is adopted only if its confidence is strictly
\* greater than the primary one; then code, confidence and method are those of
\* the secondary result, and otherwise those of the primary result stay.
C10_StrictAdoption ==
    [][pc = "llm" =>
          /\ loc.extracted_code = loc.regex_result.code
          /\ loc.confidence = loc.regex_result.confidence
          /\ IF loc'.llm_result.confidence > loc.confidence
             THEN /\ loc'.extracted_code = loc'.llm_result.code
                  /\ loc'.confidence = loc'.llm_result.confidence
                  /\ loc'.method = IF loc.via_ocr THEN "ocr+llm" ELSE "llm"
             ELSE /\ loc'.extracted_code = loc.extracted_code
                  /\ loc'.confidence = loc.confidence
                  /\ loc'.method = loc.method]_vars

\* the secondary extractor was consulted on a text with two candidates and gave,
\* with a greater confidence, another code than the regex extractor: it was adopted
C10_Witness ==
    /\ pc = "decide"
    /\ loc.method = "llm"
    /\ loc.regex_result.code # <<>>
    /\ loc.llm_result.code # loc.regex_result.code
    /\ loc.extracted_code = loc.llm_result.code
    /\ loc.llm_result.confidence > loc.regex_result.confidence

----------------------------------------------------------------------------
(* Claims about the secondary extractor, checked under Spec.               *)

\* a character that may separate the letters of a code from its digits
IsSeparator(c) == c \in {45, 95} \/ IsSpace(c)

\* the code is written in the text: its 4 letters, then its 7 digits, at most
\* one separator between them, letter case ignored
WrittenIn(text, code) ==
    \E i \in 0..Len(text) :
        /\ OccursAt(upper(text), SubSeq(code, 1, 4), i)
        /\ \/ OccursAt(text, SubSeq(code, 5, 11), i + 4)
           \/ /\ i + 5 <= Len(text)
              /\ IsSeparator(text[i + 5])
              /\ OccursAt(text, SubSeq(code, 5, 11), i + 5)

\* what the file at a path held when the run started: its text and its OCR text
TextsOf(path) == {files[dir0[path]].text, files[dir0[path]].ocr}

\* C11: a code the secondary extractor proposes that is written nowhere in the
\* text it was given is rejected: extract_code_with_llm never returns it, no
\* rename is asked for it and no log record carries it.
C11_NoHallucinatedCode ==
    /\ (pc \in {"decide", "rename"} /\ loc.llm_result.code # <<>>) =>
          WrittenIn(IF loc.via_ocr THEN loc.ocr_text ELSE loc.text,
                    loc.llm_result.code)
    /\ \A i \in 1..Len(calls) :
          \E t \in TextsOf(calls[i].path) : WrittenIn(t, calls[i].new_basename)
    /\ \A i \in 1..Len(log) :
          log[i].extracted_code # <<>> =>
              \E t \in TextsOf(log[i].original_path) :
                  WrittenIn(t, log[i].extracted_code)

----------------------------------------------------------------------------
(* Claims about the normalizer, checked under SpecNorm.                     *)

\* s is exactly 11 characters: 4 letters A-Z, then 7 digits
IsShape(s) ==
    /\ Len(s) = 11
    /\ \A i \in 1..4 : IsUpperAZ(s[i])
    /\ \A i \in 5..11 : IsDigit(s[i])

\* C12: the shape invariant of the normalizer.  The result is no error exactly
\* when the input without its spaces, hyphens and underscores, upper-cased, is 11
\* characters, 4 letters A-Z and then 7 digits; the result is then that string,
\* and in every other case, the empty input included, it is an ERROR value.
C12_ShapeInvariant ==
    pc \in {"normed", "renormed"} =>
        IF IsShape(StripUpper(inp.raw))
        THEN out.first = StripUpper(inp.raw)
        ELSE StartsWith(out.first, ERROR_PREFIX)

\* C13: the normalizer is idempotent.  When it succeeds on an input, applied to
\* its result it returns that result; and a string that already is a valid code
\* is returned unchanged.
C13_Idempotence ==
    /\ (pc = "renormed" /\ ~StartsWith(out.first, ERROR_PREFIX)) =>
          out.second = out.first
    /\ (pc \in {"normed", "renormed"} /\ IsShape(inp.raw)) => out.first = inp.raw

\* the normalizer succeeded on an input written with separators and in lower
\* case, and was applied again to the code it gave
C13_Witness ==
    /\ pc = "renormed"
    /\ IsShape(out.first)
    /\ out.first # inp.raw
    /\ Len(inp.raw) > 11
    /\ out.second = out.first

----------------------------------------------------------------------------
(* Claims about the regex extractor, checked under SpecExtract.             *)

\* C14: the result of the regex extractor has confidence 0.0 when its code is
\* empty, a confidence above 0 when its code is not, and a confidence from 0 to
\* 0.98 always, the empty text and the text of a read error included.
C14_ScoredResultInvariant ==
    pc = "extracted" =>
        /\ out.code = <<>> => out.confidence = 0
        /\ out.code # <<>> => out.confidence > 0
        /\ out.confidence >= 0
        /\ out.confidence <= 98

\* the extractor chose among several candidates one whose score, known prefix
\* and keyword counted, is above the cap
C14_Witness ==
    /\ pc = "extracted"
    /\ Len(out.candidates) > 1
    /\ out.code # <<>>
    /\ ScoreOf(lower(inp.text), out.code) > 98
    /\ out.confidence = 98

----------------------------------------------------------------------------
(* Claims about the scorer's choice, checked under SpecScore.               *)

\* C15: a list of exactly one candidate yields ("", 0.0) when its prefix is
\* excluded, the candidate with 0.98 when its prefix is a known container
\* prefix, and the candidate with 0.85 otherwise, whatever the text; a sole
\* candidate that is not excluded has a confidence above the threshold.
C15_SoleCandidate ==
    (pc = "scored" /\ Len(inp.candidates) = 1) =>
        LET code == inp.candidates[1]
        IN  /\ PrefixOf(code) \in EXCLUDED_PREFIXES =>
                  (out.code = <<>> /\ out.confidence = 0)
            /\ PrefixOf(code) \in KNOWN_CONTAINER_PREFIXES =>
                  (out.code = code /\ out.confidence = 98)
            /\ PrefixOf(code) \notin EXCLUDED_PREFIXES \cup KNOWN_CONTAINER_PREFIXES =>
                  (out.code = code /\ out.confidence = 85)
            /\ PrefixOf(code) \notin EXCLUDED_PREFIXES =>
                  out.confidence > MIN_CONFIDENCE_THRESHOLD

\* the scorer was given a sole candidate of an unknown prefix and a text that
\* holds neither the candidate nor a keyword near it, and returned it with 0.85
C15_Witness ==
    /\ pc = "scored"
    /\ Len(inp.candidates) = 1
    /\ ~Contains(upper(inp.text), upper(inp.candidates[1]))
    /\ out.code = inp.candidates[1]
    /\ out.confidence = 85

\* the positions at which the code is written in the text: its 4 letters, then
\* its 7 digits, at most one separator between them, letter case ignored
PositionsOf(text, code) ==
    {i \in 0..Len(text) :
        /\ OccursAt(upper(text), upper(SubSeq(code, 1, 4)), i)
        /\ \/ OccursAt(text, SubSeq(code, 5, 11), i + 4)
           \/ /\ i + 5 <= Len(text)
              /\ IsSeparator(text[i + 5])
              /\ OccursAt(text, SubSeq(code, 5, 11), i + 5)}

\* the positions at which a container keyword stands in the lower-cased text
KeywordPositions(text) ==
    {i \in 0..Len(text) :
        \E k \in 1..Len(CONTAINER_KEYWORDS) :
            OccursAt(lower(text), CONTAINER_KEYWORDS[k], i)}

\* a keyword stands within 100 characters of a position of the code
HasKeywordNear(text, code) ==
    \E p \in PositionsOf(text, code), q \in KeywordPositions(text) :
        Abs(p - q) < 100

\* the prefix class of a candidate
PrefixClass(code) ==
    IF PrefixOf(code) \in EXCLUDED_PREFIXES THEN "excluded"
    ELSE IF PrefixOf(code) \in KNOWN_CONTAINER_PREFIXES THEN "known"
    ELSE "unknown"

\* C16: keyword proximity wins over first occurrence.  Of two candidates of one
\* prefix class, the later having a container keyword within 100 characters of a
\* position where it is written in the text (with or without a separator,
\* whichever occurrence of the keyword it is) and the earlier having none, the
\* earlier is not the code selected.
C16_KeywordProximityWins ==
    pc = "scored" =>
        \A i, j \in 1..Len(inp.candidates) :
            ( /\ i < j
              /\ inp.candidates[i] # inp.candidates[j]
              /\ PrefixClass(inp.candidates[i]) = PrefixClass(inp.candidates[j])
              /\ PrefixClass(inp.candidates[j]) # "excluded"
              /\ HasKeywordNear(inp.text, inp.candidates[j])
              /\ ~HasKeywordNear(inp.text, inp.candidates[i]) )
            => out.code # inp.candidates[i]

----------------------------------------------------------------------------
(* Claims about the matcher, checked under SpecExtract.                     *)

\* the elements of a list
Range(xs) == {xs[i] : i \in 1..Len(xs)}

\* the shape-valid codes a text contains: a word of 4 letters and 7 digits, at
\* most one separator between them
CodesIn(text) == Range(ValidOf(FallbackFindall(text, 1)))

\* those that follow a keyword
AnchoredCodesIn(text) == Range(ValidOf(PriorityFindall(text, 1)))

\* the extractor takes the text for a text: it is not empty and is no read error
IsReadable(text) == text # <<>> /\ ~StartsWith(text, ERROR_PREFIX)

\* C17: when a text contains several shape-valid codes of which some follow a
\* keyword and some do not, the extractor reports all of them in its candidates
\* (three for a text of three codes) and selects one that follows a keyword.
C17_AllCodesReported ==
    ( /\ pc = "extracted"
      /\ IsReadable(inp.text)
      /\ Cardinality(CodesIn(inp.text)) > 1
      /\ AnchoredCodesIn(inp.text) # {}
      /\ CodesIn(inp.text) \ AnchoredCodesIn(inp.text) # {} )
    => /\ CodesIn(inp.text) \subseteq Range(out.candidates)
       /\ Len(out.candidates) >= Cardinality(CodesIn(inp.text))
       /\ out.code \in AnchoredCodesIn(inp.text)

\* the text upper-cased, its white space, hyphens and underscores removed
Squeezed(text) ==
    upper(SelectSeq(text, LAMBDA c : ~(IsSpace(c) \/ c \in {45, 95})))

\* the list has no element twice
NoDuplicates(xs) == \A i, j \in 1..Len(xs) : xs[i] = xs[j] => i = j

\* C20 as stated: every candidate is 11 characters, 4 letters A-Z and 7 digits,
\* and occurs in the upper-cased text once its spaces, hyphens and underscores
\* are removed; the list has no duplicates and is in the order in which the
\* codes first appear in that text; an empty text yields an empty list.
C20_AsStated ==
    pc = "extracted" =>
        /\ \A i \in 1..Len(out.candidates) :
              /\ IsShape(out.candidates[i])
              /\ Contains(StripUpper(inp.text), out.candidates[i])
        /\ NoDuplicates(out.candidates)
        /\ \A i, j \in 1..Len(out.candidates) :
              i < j => Find(StripUpper(inp.text), out.candidates[i])
                          < Find(StripUpper(inp.text), out.candidates[j])
        /\ inp.text = <<>> => out.candidates = <<>>

\* the first position of the text where PRIORITY_PATTERN matches with the code
\* for its group, 0 when there is none
FirstAnchored(text, code) ==
    LET at == {q \in 1..Len(text) : /\ PriorityAt(text, q).end # 0
                                    /\ StripUpper(PriorityAt(text, q).group) = code}
    IN  IF at = {} THEN 0 ELSE CHOOSE q \in at : \A r \in at : q <= r

\* the first position of the text where FALLBACK_PATTERN matches the code
FirstWord(text, code) ==
    LET at == {q \in 1..Len(text) : /\ FallbackAt(text, q).end # 0
                                    /\ StripUpper(FallbackAt(text, q).group) = code}
    IN  IF at = {} THEN 0 ELSE CHOOSE q \in at : \A r \in at : q <= r

\* the first position where the code is matched by the pass the list comes from:
\* the keyword pass when it finds a valid code, the whole-word pass otherwise
FirstMatch(text, code) ==
    IF AnchoredCodesIn(text) # {} THEN FirstAnchored(text, code)
    ELSE FirstWord(text, code)

\* C20: matcher soundness.  Every candidate is 11 characters, 4 letters A-Z and
\* 7 digits, and occurs in the upper-cased text once its white space (line breaks
\* and tabs as well as spaces), hyphens and underscores are removed; the list has
\* no duplicates and is in the order in which the pass that produced it first
\* matches each code; a text that is empty or a read error yields an empty list
\* and no code.
C20_MatcherSoundness ==
    pc = "extracted" =>
        /\ \A i \in 1..Len(out.candidates) :
              /\ IsShape(out.candidates[i])
              /\ Contains(Squeezed(inp.text), out.candidates[i])
        /\ NoDuplicates(out.candidates)
        /\ \A i, j \in 1..Len(out.candidates) :
              i < j => /\ 0 < FirstMatch(inp.text, out.candidates[i])
                       /\ FirstMatch(inp.text, out.candidates[i])
                             < FirstMatch(inp.text, out.candidates[j])
        /\ ~IsReadable(inp.text) => out.candidates = <<>> /\ out.code = <<>>

\* the matcher returned two candidates, the first of them written in the text
\* with a separator or in lower case
C20_Witness ==
    /\ pc = "extracted"
    /\ Len(out.candidates) >= 2
    /\ ~Contains(inp.text, out.candidates[1])

----------------------------------------------------------------------------
(* Claims about the batch as a whole, checked under Spec.                   *)

\* C18: no batch-wide abort, and the order kept.  When the call is over the loop
\* has gone through every document, whatever failed on the way: no document is
\* left unprocessed behind one that failed; and the log records stand in the
\* sorted order of the paths.
C18_NoAbortInOrder ==
    /\ pc \in {"done", "raised"} => idx = Len(pdf_paths) + 1
    /\ pc # "idle" =>
          \A i, j \in 1..Len(log) :
              i < j => StrLess(log[i].original_path, log[j].original_path)

\* C19: accept or skip is decided by the confidence threshold.  The rename step
\* is reached only by a document whose final confidence is at least
\* MIN_CONFIDENCE_THRESHOLD, and a log record that carries a new path (the
\* document was renamed, or would be in a dry run) has a confidence of at least
\* the threshold: a document below it is skipped, its file keeping its name.
C19_ThresholdDecides ==
    /\ pc = "rename" => loc.confidence >= MIN_CONFIDENCE_THRESHOLD
    /\ pc # "idle" =>
          \A i \in 1..Len(log) :
              log[i].new_path # <<>> => log[i].confidence >= MIN_CONFIDENCE_THRESHOLD

----------------------------------------------------------------------------
(* Further claims about the scorer, checked under SpecScore.                *)

\* the candidates of the list that the scorer does not skip, by their index
LiveCandidates(candidates) ==
    {i \in 1..Len(candidates) : PrefixOf(candidates[i]) \notin EXCLUDED_PREFIXES}

\* C21: multi-candidate selection.  Of a list of two or more candidates, each
\* that is not excluded scoring 0.30, + 0.50 for a known prefix, + 0.30 for a
\* keyword within 100 characters, + 0.20 when that keyword denotes cargo,
\* + 0.01 for each character, the code selected is a candidate of maximal score,
\* the earliest in the list of those of that score, and the confidence is the
\* smaller of that score and 0.98.
C21_MultiCandidateSelection ==
    (pc = "scored" /\ Len(inp.candidates) >= 2 /\ LiveCandidates(inp.candidates) # {})
    => \E i \in LiveCandidates(inp.candidates) :
          \E s \in {ScoreOf(lower(inp.text), inp.candidates[i])} :
              /\ out.code = inp.candidates[i]
              /\ s \in {41, 71, 91, 121, 141}
              /\ \A j \in LiveCandidates(inp.candidates) :
                    \E t \in {ScoreOf(lower(inp.text), inp.candidates[j])} :
                        /\ t <= s
                        /\ (t = s /\ j < i) => inp.candidates[j] = inp.candidates[i]
              /\ out.confidence = Min(s, 98)

\* two different candidates of one score were scored, and the earlier selected
C21_Witness ==
    /\ pc = "scored"
    /\ Len(inp.candidates) = 2
    /\ inp.candidates[1] # inp.candidates[2]
    /\ LiveCandidates(inp.candidates) = {1, 2}
    /\ ScoreOf(lower(inp.text), inp.candidates[1])
          = ScoreOf(lower(inp.text), inp.candidates[2])
    /\ out.code = inp.candidates[1]

----------------------------------------------------------------------------
(* Further claims about the matcher, checked under SpecExtract.             *)

\* C22: the order of the passes.  The fallback pass runs exactly when the
\* priority pass kept no valid candidate: when the priority pass keeps one, the
\* candidates are the codes it kept, each following a keyword somewhere in the
\* text, and no code that only the fallback pattern matches is among them; when
\* it keeps none, the candidates are the codes of the fallback pass.
C22_PassOrdering ==
    (pc = "extracted" /\ IsReadable(inp.text)) =>
        /\ AnchoredCodesIn(inp.text) # {} =>
              /\ Range(out.candidates) = AnchoredCodesIn(inp.text)
              /\ \A i \in 1..Len(out.candidates) :
                    FirstAnchored(inp.text, out.candidates[i]) # 0
        /\ AnchoredCodesIn(inp.text) = {} =>
              /\ Range(out.candidates) = CodesIn(inp.text)
              /\ out.candidates = Dedupe(ValidOf(FallbackFindall(inp.text, 1)))

\* the text holds a code that follows a keyword and another that follows none,
\* and the matcher has returned
C22_Witness ==
    /\ pc = "extracted"
    /\ IsReadable(inp.text)
    /\ AnchoredCodesIn(inp.text) # {}
    /\ \E c \in CodesIn(inp.text) : FirstAnchored(inp.text, c) = 0
    /\ out.candidates # <<>>

----------------------------------------------------------------------------
(* Further claims about safe_rename, checked under SpecRename.              *)

\* base_k.pdf
Suffixed(new_basename, k) == new_basename \o <<95>> \o Str(k) \o PDF_EXT

\* the note without the tag a dry run puts before it
Untagged(c) ==
    IF c.dry_run /\ StartsWith(c.note, NOTE_DRY_RUN)
    THEN SubSeq(c.note, Len(NOTE_DRY_RUN) + 1, Len(c.note))
    ELSE c.note

\* C23: the suffix scheme.  A call on a source that exists, whose rename the
\* operating system does not refuse, returns: when base.pdf exists and is not
\* the source path, base_k.pdf for the least k >= 1 such that base_k.pdf does
\* not exist, with the note of a collision naming that k; otherwise base.pdf
\* with the note of a rename without collision, and when base.pdf is the source
\* path the folder is left as it is.
C23_SuffixScheme ==
    [][(JustCalled /\ calls'[Len(calls')].file # 0
                   /\ calls'[Len(calls')].new_path # <<>>) =>
        LET c == calls'[Len(calls')]
            base == c.new_basename \o PDF_EXT
        IN  IF exists(dir, base) /\ base # c.path
            THEN \E k \in 1..(Cardinality(DOMAIN dir) + 1) :
                    /\ c.new_path = Suffixed(c.new_basename, k)
                    /\ ~exists(dir, Suffixed(c.new_basename, k))
                    /\ \A j \in 1..(k - 1) : exists(dir, Suffixed(c.new_basename, j))
                    /\ Untagged(c) = NOTE_COLLISION \o Str(k)
            ELSE /\ c.new_path = base
                 /\ Untagged(c) = NOTE_RENAMED
                 /\ base = c.path => dir' = dir
    ]_vars

\* a call found base.pdf and base_1.pdf taken and returned base_2.pdf
C23_Witness ==
    /\ pc = "tool"
    /\ calls # <<>>
    /\ calls[Len(calls)].file # 0
    /\ calls[Len(calls)].new_path = Suffixed(calls[Len(calls)].new_basename, 2)
    /\ calls[Len(calls)].note = NOTE_COLLISION \o Str(2)

----------------------------------------------------------------------------
(* The claim about a concurrent actor, checked under SpecRace.              *)

\* C24: a file another actor creates at the chosen destination after the
\* collision scan and before the rename is not overwritten: no step takes a file
\* that is in the folder out of it.
C24_NoOverwriteUnderRace ==
    [][\A n \in DOMAIN dir : \E m \in DOMAIN dir' : dir'[m] = dir[n]]_vars

----------------------------------------------------------------------------
(* Further claims about the batch, checked under Spec.                      *)

\* the code the regex extractor finds in the text of the file at a path of the
\* folder the batch starts with
CodeYielded(path) ==
    regex_extract_code_direct(read_pdf_text_direct(dir0, files, path)).code

\* the folder the batch starts with is one already processed: every file is
\* named code.pdf or code_k.pdf for the code its text yields
AlreadyProcessed ==
    \A n \in DOMAIN dir0 :
        \E c \in {CodeYielded(n)} :
            /\ c # <<>>
            /\ \/ n = c \o PDF_EXT
               \/ \E k \in 1..9 : n = Suffixed(c, k)

\* C25: re-run idempotence.  A batch that is no dry run, run over a folder
\* already processed, renames no file: the folder stays as it was, a file named
\* code_k.pdf included.
C25_RerunIdempotence ==
    (pc # "idle" /\ ~cfg.dry_run /\ ~cfg.llm /\ AlreadyProcessed) => dir = dir0

\* C26: counter accounting.  When process_folder_simple returns, every document
\* has been counted in exactly one of processed, skipped and errors, so that
\* their sum is the number of documents, and processed equals renamed.
C26_CounterAccounting ==
    pc = "done" =>
        /\ cnt.processed + cnt.skipped + cnt.errors = Len(pdf_paths)
        /\ cnt.processed = cnt.renamed

----------------------------------------------------------------------------
(* A further claim about the scorer, checked under SpecScore.               *)

\* C27: known-prefix dominance.  When a list of two or more candidates holds one
\* with a known container prefix, the code selected has a known container
\* prefix.
C27_KnownPrefixDominance ==
    ( /\ pc = "scored"
      /\ Len(inp.candidates) >= 2
      /\ \E i \in 1..Len(inp.candidates) : PrefixClass(inp.candidates[i]) = "known" )
    => /\ out.code # <<>>
       /\ PrefixClass(out.code) = "known"

----------------------------------------------------------------------------
(* The claim about a dry run and the real run, checked under SpecTwice.     *)

\* C28: dry-run fidelity of the batch.  When the real run that follows a dry run
\* of the same batch has returned, every document the real run renamed, with
\* the code the dry run had for it, received the path the dry run logged for
\* it, several documents of one code included.  The rows of the real run are
\* those after the rows the log held when it started.
C28_BatchDryRunFidelity ==
    (pc = "done" /\ inp # <<>>) =>
        \A i \in 1..(Len(log) - inp.kept) :
            \E r \in {log[inp.kept + i]} :
                ( /\ i <= Len(inp.dry_log)
                  /\ inp.dry_log[i].original_path = r.original_path
                  /\ inp.dry_log[i].extracted_code = r.extracted_code
                  /\ r.new_path # <<>> )
                => inp.dry_log[i].new_path = r.new_path

============================================================================
